---- MODULE Spec2Model ----
(***************************************************************************)
(* A model of SQLFileParser (src/src/db/sql_file_parser.py): the parser of *)
(* SQL dump files that recovers table definitions, table schemas and       *)
(* sample rows.                                                            *)
(*                                                                         *)
(* Text is modelled as a sequence of tokens.  Every character the code     *)
(* treats specially (parentheses, comma, semicolon, quotes, backslash,     *)
(* white space) is a token of its own; a maximal run of word characters    *)
(* is one word token; the fixed phrases the code's patterns spell with     *)
(* single blanks ("LOCK TABLES", "INSERT INTO", ...) are one token each.   *)
(* The code's regular expressions are transcribed item by item and run by  *)
(* a backtracking matcher with Python's priorities (leftmost match,        *)
(* greedy and lazy repetition, ordered alternation).                       *)
(***************************************************************************)
EXTENDS Integers, Sequences, FiniteSets, TLC

VARIABLES
  input,              \* the dump file the parser was constructed on (its description)
  fileOk,             \* whether the file can still be read
  table_definitions,  \* self._table_definitions: None or a dict name -> definition
  schema_cache,       \* self._schema_cache: dict name -> schema
  last,               \* the last public call: operation, arguments, outcome
  first_schema,       \* history: per table, the first schema get_table_schema returned
  repeated,           \* history: the tables get_table_schema was called for again
  constructed,        \* whether __init__ has produced the parser object
  read_done           \* history: whether _read_sql_file has been invoked

vars == <<input, fileOk, table_definitions, schema_cache, last, first_schema,
          repeated, constructed, read_done>>

(***************************************************************************)
(* Tokens                                                                  *)
(***************************************************************************)
WS == {" ", "\n"}

\* The back quote of SQL identifiers (a string of this module cannot hold the
\* character itself)
BQ == "~"

Punct == {"(", ")", ",", ";", BQ, "'", "\"", "\\", "=", "--", "<", ">", ".", "-", "+",
          "-- Dumping data for table ", "LOCK TABLES", "UNLOCK TABLES",
          "INSERT INTO"}

\* \w+ : a run of word characters is one token
IsWord(tok) == tok \notin WS /\ tok \notin Punct

\* str.upper() on one token (the lower-case words of the inputs)
Upper(tok) ==
  CASE tok = "not" -> "NOT"
    [] tok = "null" -> "NULL"
    [] tok = "primary" -> "PRIMARY"
    [] tok = "key" -> "KEY"
    [] tok = "int" -> "INT"
    [] tok = "keyword" -> "KEYWORD"
    [] tok = "checksum" -> "CHECKSUM"
    [] tok = "index_no" -> "INDEX_NO"
    [] tok = "id" -> "ID"
    [] tok = "name" -> "NAME"
    [] tok = "bio" -> "BIO"
    [] tok = "price" -> "PRICE"
    [] tok = "users" -> "USERS"
    [] tok = "t" -> "T"
    [] tok = "u" -> "U"
    [] tok = "v" -> "V"
    [] tok = "a" -> "A"
    [] tok = "b" -> "B"
    [] tok = "x" -> "X"
    [] OTHER -> tok

UpperSeq(s) == [i \in 1..Len(s) |-> Upper(s[i])]

\* Python's  needle in haystack  for token sequences
Contains(hay, needle) ==
  \E i \in 1..(Len(hay) - Len(needle) + 1) :
    SubSeq(hay, i, i + Len(needle) - 1) = needle

RECURSIVE LStrip(_, _)
LStrip(s, chars) ==
  IF s # <<>> /\ Head(s) \in chars THEN LStrip(Tail(s), chars) ELSE s

RECURSIVE RStrip(_, _)
RStrip(s, chars) ==
  IF s # <<>> /\ s[Len(s)] \in chars
  THEN RStrip(SubSeq(s, 1, Len(s) - 1), chars) ELSE s

\* str.strip(chars); str.strip() is Strip(s, WS)
Strip(s, chars) == LStrip(RStrip(s, chars), chars)

RECURSIVE Flatten(_)
Flatten(ss) == IF ss = <<>> THEN <<>> ELSE Head(ss) \o Flatten(Tail(ss))

(***************************************************************************)
(* Regular expressions (module re)                                         *)
(***************************************************************************)
Lit(s) == [k |-> "lit", s |-> s]           \* a literal, case-sensitive
LitI(s) == [k |-> "liti", s |-> s]         \* a literal under re.IGNORECASE
OneOf(S) == [k |-> "in", S |-> S]          \* one of the tokens of S
NoneOf(S) == [k |-> "notin", S |-> S]      \* [^...]
Space == [k |-> "in", S |-> WS]            \* \s
Word == [k |-> "word"]                     \* \w+
AnyTok == [k |-> "any"]                    \* [\s\S], and . under re.DOTALL
Dot == [k |-> "notin", S |-> {"\n"}]       \* . without re.DOTALL
Star(sub) == [k |-> "star", sub |-> sub]   \* (?:sub)*  greedy
Lazy(sub) == [k |-> "lazy", sub |-> sub]   \* (?:sub)*? lazy
Opt(sub) == [k |-> "opt", sub |-> sub]     \* (?:sub)?
Alt(subs) == [k |-> "alt", subs |-> subs]  \* (?:a|b|...)
Open(g) == [k |-> "open", g |-> g]         \* ( of group g
Close(g) == [k |-> "close", g |-> g]       \* ) of group g
Spaces0 == <<Star(<<Space>>)>>             \* \s*
Spaces1 == <<Space, Star(<<Space>>)>>      \* \s+
Quote == Opt(<<OneOf({BQ, "'", "\""})>>)   \* (?:`|\'|")?
Tick == Opt(<<Lit(BQ)>>)                   \* `?

TokMatches(item, tok) ==
  CASE item.k = "lit" -> tok = item.s
    [] item.k = "liti" -> Upper(tok) = Upper(item.s)
    [] item.k = "in" -> tok \in item.S
    [] item.k = "notin" -> tok \notin item.S
    [] item.k = "word" -> IsWord(tok)
    [] item.k = "any" -> TRUE

NoCaps == [g \in 1..3 |-> <<0, 0>>]
NoMatch == [ok |-> FALSE, start |-> 0, end |-> 0, caps |-> NoCaps]

IsTokItem(item) == item.k \in {"lit", "liti", "in", "notin", "word", "any"}

\* the position after the longest run, from pos on, of tokens the item matches
RunEnd(item, text, pos) ==
  LET stops == {j \in pos..Len(text) : ~TokMatches(item, text[j])}
  IN IF stops = {} THEN Len(text) + 1
     ELSE CHOOSE j \in stops : \A i \in stops : j <= i

\* Whether a match of the items can start at position j: when the items begin
\* (after group marks) with a single token, that token must be at j.
RECURSIVE CanStart(_, _, _)
CanStart(items, text, j) ==
  IF Len(items) = 0 THEN TRUE
  ELSE LET h == Head(items)
       IN IF h.k \in {"open", "close"} THEN CanStart(Tail(items), text, j)
          ELSE IF IsTokItem(h) THEN j <= Len(text) /\ TokMatches(h, text[j])
          ELSE IF h.k \in {"star", "lazy", "opt"}
          THEN CanStart(h.sub, text, j) \/ CanStart(Tail(items), text, j)
          ELSE TRUE

\* The match of the items at pos, found in the order a backtracking matcher
\* tries the alternatives: a greedy repetition takes the most repetitions the
\* rest of the pattern can follow, a lazy one the fewest.
RECURSIVE Match(_, _, _, _), TryEnds(_, _, _, _, _)
Match(items, text, pos, caps) ==
  IF Len(items) = 0
  THEN [ok |-> TRUE, start |-> 0, end |-> pos, caps |-> caps]
  ELSE LET h == Head(items)
           t == Tail(items)
       IN CASE h.k = "open" ->
                 Match(t, text, pos, [caps EXCEPT ![h.g] = <<pos, pos>>])
            [] h.k = "close" ->
                 Match(t, text, pos, [caps EXCEPT ![h.g] = <<caps[h.g][1], pos>>])
            [] h.k = "opt" ->
                 LET r == Match(h.sub \o t, text, pos, caps)
                 IN IF r.ok THEN r ELSE Match(t, text, pos, caps)
            [] h.k \in {"star", "lazy"} /\ Len(h.sub) = 1 /\ IsTokItem(h.sub[1]) ->
                 \* a repeated single token: the stops the rest can start at
                 TryEnds(t, text,
                         {j \in pos..RunEnd(h.sub[1], text, pos) : CanStart(t, text, j)},
                         h.k = "star", caps)
            [] h.k = "star" ->
                 LET r == Match(h.sub \o items, text, pos, caps)
                 IN IF r.ok THEN r ELSE Match(t, text, pos, caps)
            [] h.k = "lazy" ->
                 LET r == Match(t, text, pos, caps)
                 IN IF r.ok THEN r ELSE Match(h.sub \o items, text, pos, caps)
            [] h.k = "alt" ->
                 IF Len(h.subs) = 0 THEN NoMatch
                 ELSE LET r == Match(Head(h.subs) \o t, text, pos, caps)
                      IN IF r.ok THEN r
                         ELSE Match(<<Alt(Tail(h.subs))>> \o t, text, pos, caps)
            [] OTHER ->
                 IF pos <= Len(text) /\ TokMatches(h, text[pos])
                 THEN Match(t, text, pos + 1, caps)
                 ELSE NoMatch

\* the stops of a repetition tried in order: the farthest first when greedy,
\* the nearest first when lazy
TryEnds(t, text, stops, greedy, caps) ==
  IF stops = {} THEN NoMatch
  ELSE LET j == CHOOSE e \in stops :
                  \A i \in stops : IF greedy THEN e >= i ELSE e <= i
           r == Match(t, text, j, caps)
       IN IF r.ok THEN r ELSE TryEnds(t, text, stops \ {j}, greedy, caps)

\* re.match: the match at the start of the text
ReMatch(items, text) == [Match(items, text, 1, NoCaps) EXCEPT !.start = 1]

\* re.search from position from: the leftmost match
RECURSIVE SearchIn(_, _, _)
\* the match r tried at start i: taken, or the later starts are tried
SearchTry(items, text, starts, i, r) ==
  IF r.ok THEN [r EXCEPT !.start = i]
  ELSE SearchIn(items, text, starts \ {i})

SearchAt(items, text, starts, i) ==
  SearchTry(items, text, starts, i, Match(items, text, i, NoCaps))

SearchIn(items, text, starts) ==
  IF starts = {} THEN NoMatch
  ELSE SearchAt(items, text, starts, CHOOSE j \in starts : \A k \in starts : j <= k)

SearchFrom(items, text, from) ==
  SearchIn(items, text, {i \in from..(Len(text) + 1) : CanStart(items, text, i)})

ReSearch(items, text) == SearchFrom(items, text, 1)

\* re.findall / re.finditer: the non-overlapping matches, left to right
RECURSIVE FindAllFrom(_, _, _)
\* the match r and the matches after it; an empty match moves on by one
FindAllAfter(items, text, r) ==
  IF ~r.ok THEN <<>>
  ELSE <<r>> \o FindAllFrom(items, text,
                            IF r.end > r.start THEN r.end ELSE r.end + 1)

FindAllFrom(items, text, from) ==
  FindAllAfter(items, text, SearchFrom(items, text, from))

ReFindAll(items, text) == FindAllFrom(items, text, 1)

\* m.group(g), and m.group(0)
Group(text, m, g) == SubSeq(text, m.caps[g][1], m.caps[g][2] - 1)
Group0(text, m) == SubSeq(text, m.start, m.end - 1)

(***************************************************************************)
(* Python values                                                           *)
(***************************************************************************)
\* None, for self._table_definitions before the first extraction
None == [none |-> TRUE]
IsNone(x) == "none" \in DOMAIN x

\* A dict: its keys in insertion order, and the value of each key
EmptyDict == [keys |-> <<>>, val |-> <<>>]
Range(s) == {s[i] : i \in 1..Len(s)}
HasKey(d, key) == key \in Range(d.keys)
\* a store that keeps the value a key already has
DictPutKeepFirst(d, key, v) ==
  IF HasKey(d, key) THEN d
  ELSE [keys |-> Append(d.keys, key), val |-> (key :> v) @@ d.val]

\* d[key] = v : a new key goes last, an old key keeps its place
DictPut(d, key, v) ==
  [keys |-> IF HasKey(d, key) THEN d.keys ELSE Append(d.keys, key),
   val |-> (key :> v) @@ d.val]

\* str.split(","): the pieces between the commas
RECURSIVE SplitComma(_, _)
SplitComma(s, cur) ==
  IF s = <<>> THEN <<cur>>
  ELSE IF Head(s) = "," THEN <<cur>> \o SplitComma(Tail(s), <<>>)
  ELSE SplitComma(Tail(s), Append(cur, Head(s)))

(***************************************************************************)
(* extract_table_definitions                                               *)
(***************************************************************************)
\* r'CREATE\s+TABLE\s+(?:IF\s+NOT\s+EXISTS\s+)?(?:`|\'|")?(\w+)(?:`|\'|")?
\*   \s*\(([\s\S]*?)\)([\s\S]*?);'
TableDefPattern ==
  <<LitI("CREATE")>> \o Spaces1 \o <<LitI("TABLE")>> \o Spaces1
  \o <<Opt(<<LitI("IF")>> \o Spaces1 \o <<LitI("NOT")>> \o Spaces1
           \o <<LitI("EXISTS")>> \o Spaces1)>>
  \o <<Quote, Open(1), Word, Close(1), Quote>> \o Spaces0
  \o <<Lit("("), Open(2), Lazy(<<AnyTok>>), Close(2), Lit(")"),
       Open(3), Lazy(<<AnyTok>>), Close(3), Lit(";")>>

\* f"CREATE TABLE {table_name} ({columns_part}){table_options};"
FullDef(table_name, columns_part, table_options) ==
  <<"CREATE", " ", "TABLE", " ", table_name, " ", "(">> \o columns_part
  \o <<")">> \o table_options \o <<";">>

\* the loop over the matches: a later match of a name overwrites the earlier one
RECURSIVE StoreMatches(_, _, _)
StoreMatches(d, sql_content, matches) ==
  IF matches = <<>> THEN d
  ELSE LET m == Head(matches)
           table_name == Group(sql_content, m, 1)[1]
       IN StoreMatches(
            DictPut(d, table_name,
                    FullDef(table_name, Group(sql_content, m, 2),
                            Group(sql_content, m, 3))),
            sql_content, Tail(matches))

\* the body of extract_table_definitions after the read
BuildTableDefinitions(sql_content) ==
  StoreMatches(EmptyDict, sql_content, ReFindAll(TableDefPattern, sql_content))

(***************************************************************************)
(* The dump file: a description of its statements, and its text            *)
(***************************************************************************)
\* A dump is [tables, data].  tables lists the CREATE TABLE statements:
\*   [name, style, clauses, tail], style "plain" (bare identifiers) or
\*   "quoted" (back-quoted identifiers, as mysqldump writes them).
\* A clause is a column   [kind |-> "col", name, type, notnull, pk]
\*   (notnull and pk: "no", or the marker in "upper" or "lower" case),
\* a primary key          [kind |-> "pk", cols],
\* a foreign key          [kind |-> "fk", cols, reftable, refcols],
\* a unique key           [kind |-> "unique", cols],
\* or a bare identifier   [kind |-> "bare", name]   (a name with nothing after it).
\* data lists the data sections: [table, marker, rows], a row being
\*   [vals, newStmt]: the tuple's values and whether it opens a new INSERT.

Ident(style, name) == IF style = "quoted" THEN <<BQ, name, BQ>> ELSE <<name>>

RECURSIVE Join(_, _)
Join(ss, sep) ==
  IF ss = <<>> THEN <<>>
  ELSE IF Len(ss) = 1 THEN ss[1]
  ELSE ss[1] \o sep \o Join(Tail(ss), sep)

IdentList(style, names) ==
  Join([i \in 1..Len(names) |-> Ident(style, names[i])], <<",">>)

TypeText(type) ==
  CASE type = "INT" -> <<"INT">>
    [] type = "int" -> <<"int">>
    [] type = "TEXT" -> <<"TEXT">>
    [] type = "VARCHAR(50)" -> <<"VARCHAR", "(", "50", ")">>
    [] type = "DECIMAL(10,2)" -> <<"DECIMAL", "(", "10", ",", "2", ")">>

ClauseText(style, c) ==
  CASE c.kind = "col" ->
         Ident(style, c.name) \o <<" ">> \o TypeText(c.type)
         \o (CASE c.notnull = "upper" -> <<" ", "NOT", " ", "NULL">>
               [] c.notnull = "lower" -> <<" ", "not", " ", "null">>
               [] OTHER -> <<>>)
         \o (CASE c.pk = "upper" -> <<" ", "PRIMARY", " ", "KEY">>
               [] c.pk = "lower" -> <<" ", "primary", " ", "key">>
               [] OTHER -> <<>>)
    [] c.kind = "pk" ->
         <<"PRIMARY", " ", "KEY", " ", "(">> \o IdentList(style, c.cols) \o <<")">>
    [] c.kind = "fk" ->
         <<"FOREIGN", " ", "KEY", " ", "(">> \o IdentList(style, c.cols)
         \o <<")", " ", "REFERENCES", " ">> \o Ident(style, c.reftable)
         \o <<" ", "(">> \o IdentList(style, c.refcols) \o <<")">>
    [] c.kind = "unique" ->
         <<"UNIQUE", " ", "KEY", " ", "(">> \o IdentList(style, c.cols) \o <<")">>
    [] c.kind = "bare" -> Ident(style, c.name)

TailText(tail) ==
  CASE tail = "semi" -> <<";">>
    [] tail = "engine" -> <<" ", "ENGINE", "=", "InnoDB", ";">>
    [] tail = "charset" -> <<" ", "DEFAULT", " ", "CHARSET", "=", "utf8", ";">>
    [] tail = "engine_charset" ->
         <<" ", "ENGINE", "=", "InnoDB", " ", "DEFAULT", " ", "CHARSET", "=",
           "utf8", ";">>
    [] tail = "comment" -> <<" ", "COMMENT", "=", "'", "x", "'", ";">>

\* the clauses between the parentheses: on one line, or one per line
BodyText(d) ==
  (IF d.style = "quoted" THEN <<"\n", " ">> ELSE <<>>)
  \o Join([i \in 1..Len(d.clauses) |-> ClauseText(d.style, d.clauses[i])],
          IF d.style = "quoted" THEN <<",", "\n", " ">> ELSE <<",", " ">>)
  \o (IF d.style = "quoted" THEN <<"\n">> ELSE <<>>)

CreateTableText(d) ==
  <<"CREATE", " ", "TABLE", " ">> \o Ident(d.style, d.name) \o <<" ", "(">>
  \o BodyText(d) \o <<")">> \o TailText(d.tail) \o <<"\n">>

\* a value of a tuple: NULL, an integer, an integer written after a blank, a
\* quoted string, or a function call written as it is
ValueText(v) ==
  CASE v.tag = "null" -> <<"NULL">>
    [] v.tag = "int" -> <<v.v>>
    [] v.tag = "sint" -> <<" ", v.v>>
    [] v.tag = "str" -> <<"'">> \o v.v \o <<"'">>
    [] v.tag = "call" -> v.v

\* the values between the parentheses of a tuple
ValuesText(vals) == Join([i \in 1..Len(vals) |-> ValueText(vals[i])], <<",">>)

TupleText(vals) == <<"(">> \o ValuesText(vals) \o <<")">>

\* the rows as INSERT statements: a row with newStmt opens a statement, the
\* others continue the statement before them
RECURSIVE RowsText(_, _, _)
RowsText(table, rows, open) ==
  IF rows = <<>> THEN (IF open THEN <<";", "\n">> ELSE <<>>)
  ELSE LET r == Head(rows)
       IN IF r.newStmt \/ ~open
          THEN (IF open THEN <<";", "\n">> ELSE <<>>)
               \o <<"INSERT INTO", " ", BQ, table, BQ, " ", "VALUES", " ">>
               \o TupleText(r.vals) \o RowsText(table, Tail(rows), TRUE)
          ELSE <<",">> \o TupleText(r.vals) \o RowsText(table, Tail(rows), TRUE)

DataText(d) ==
  (IF d.marker
   THEN <<"-- Dumping data for table ", BQ, d.table, BQ, "\n", "--", "\n", "\n">>
   ELSE <<>>)
  \o <<"LOCK TABLES", " ", BQ, d.table, BQ, " ", "WRITE", ";", "\n">>
  \o RowsText(d.table, d.rows, FALSE)
  \o <<"UNLOCK TABLES", ";", "\n">>

\* the text of the file
DumpText(in) ==
  Flatten([i \in 1..Len(in.tables) |-> CreateTableText(in.tables[i])])
  \o Flatten([i \in 1..Len(in.data) |-> DataText(in.data[i])])

(***************************************************************************)
(* get_table_schema: the parse of one definition                           *)
(***************************************************************************)
\* r'CREATE\s+TABLE\s+(?:`|\'|")?(?:\w+)(?:`|\'|")?\s*\(([\s\S]*)\)\s*(?:ENGINE|;)'
ColSectionPattern ==
  <<LitI("CREATE")>> \o Spaces1 \o <<LitI("TABLE")>> \o Spaces1
  \o <<Quote, Word, Quote>> \o Spaces0
  \o <<Lit("("), Open(1), Star(<<AnyTok>>), Close(1), Lit(")")>> \o Spaces0
  \o <<Alt(<< <<LitI("ENGINE")>>, <<Lit(";")>> >>)>>

\* a level that counts round brackets only
LevelAtRound(text, i) ==
  Cardinality({j \in 1..(i - 1) : text[j] = "("})
  - Cardinality({j \in 1..(i - 1) : text[j] = ")"})

\* _split_preserving_parentheses.  level, when the loop reaches character i, is
\* the number of opening brackets before i minus the number of closing ones.
LevelAt(text, i) ==
  Cardinality({j \in 1..(i - 1) : text[j] \in {"(", "{", "["}})
  - Cardinality({j \in 1..(i - 1) : text[j] \in {")", "}", "]"}})

\* the commas met at level 0, where the loop ends a piece
SplitPoints(text) ==
  {i \in 1..Len(text) : text[i] = "," /\ LevelAt(text, i) = 0}

\* the pieces from position from on: each piece before a comma is stripped and
\* appended; what follows the last comma is appended unless it strips to nothing
RECURSIVE SplitFrom(_, _, _)
SplitFrom(text, from, points) ==
  LET rest == {i \in points : i >= from}
  IN IF rest = {}
     THEN LET current == SubSeq(text, from, Len(text))
          IN IF Strip(current, WS) # <<>> THEN <<Strip(current, WS)>> ELSE <<>>
     ELSE LET i == CHOOSE j \in rest : \A k \in rest : j <= k
          IN <<Strip(SubSeq(text, from, i - 1), WS)>>
             \o SplitFrom(text, i + 1, points)

split_preserving_parentheses(text) == SplitFrom(text, 1, SplitPoints(text))

ConstraintKeywords ==
  {"PRIMARY", "FOREIGN", "UNIQUE", "KEY", "INDEX", "CONSTRAINT", "CHECK", "FULLTEXT"}

\* whether the upper-case word begins with the letters of the keyword (the
\* words of the inputs that do without being the keyword are listed)
BeginsWith(word, kw) ==
  \/ word = kw
  \/ kw = "KEY" /\ word = "KEYWORD"
  \/ kw = "CHECK" /\ word = "CHECKSUM"
  \/ kw = "INDEX" /\ word = "INDEX_NO"

\* re.match(r'^(?:PRIMARY|FOREIGN|UNIQUE|KEY|INDEX|CONSTRAINT|CHECK|FULLTEXT)',
\*          part.upper())
IsConstraint(part) ==
  part # <<>> /\ \E kw \in ConstraintKeywords : BeginsWith(Upper(part[1]), kw)

\* [^`)]+
ColsItems == <<NoneOf({BQ, ")"}), Star(<<NoneOf({BQ, ")"})>>)>>

\* r'FOREIGN\s+KEY\s+\(`?([^`)]+)`?\)\s+REFERENCES\s+`?(\w+)`?\s*\(`?([^`)]+)`?\)'
FkPattern ==
  <<LitI("FOREIGN")>> \o Spaces1 \o <<LitI("KEY")>> \o Spaces1
  \o <<Lit("("), Tick, Open(1)>> \o ColsItems \o <<Close(1), Tick, Lit(")")>>
  \o Spaces1 \o <<LitI("REFERENCES")>> \o Spaces1
  \o <<Tick, Open(2), Word, Close(2), Tick>> \o Spaces0
  \o <<Lit("("), Tick, Open(3)>> \o ColsItems \o <<Close(3), Tick, Lit(")")>>

\* r'PRIMARY\s+KEY\s+\(`?([^`)]+)`?\)'
PkPattern ==
  <<LitI("PRIMARY")>> \o Spaces1 \o <<LitI("KEY")>> \o Spaces1
  \o <<Lit("("), Tick, Open(1)>> \o ColsItems \o <<Close(1), Tick, Lit(")")>>

\* r'`?(\w+)`?\s+(.*)'
ColPattern ==
  <<Tick, Open(1), Word, Close(1), Tick>> \o Spaces1
  \o <<Open(2), Star(<<Dot>>), Close(2)>>

\* r'DEFAULT\s+([^,\s]+)'
DefaultPattern ==
  <<LitI("DEFAULT")>> \o Spaces1
  \o <<Open(1), NoneOf(WS \cup {","}), Star(<<NoneOf(WS \cup {","})>>), Close(1)>>

\* a type pattern without the parenthesized arguments
TypePatternWord == <<Open(1), Word, Close(1)>>

\* r'(\w+(?:\s*\([^)]*\))?)'
TypePattern ==
  <<Open(1), Word,
    Opt(Spaces0 \o <<Lit("("), Star(<<NoneOf({")"})>>), Lit(")")>>), Close(1)>>

\* [c.strip('` \t\n\r') for c in cols.split(',')]
StripCols(cols) ==
  LET pieces == SplitComma(cols, <<>>)
  IN [i \in 1..Len(pieces) |-> Strip(pieces[i], {BQ} \cup WS)]

\* the NOT NULL test without the upper-casing
NullableCaseSensitive(col_def) == ~Contains(col_def, <<"NOT", " ", "NULL">>)

\* "NOT NULL" not in col_def.upper()
Nullable(col_def) == ~Contains(UpperSeq(col_def), <<"NOT", " ", "NULL">>)

\* "PRIMARY KEY" in col_def.upper()
InlinePrimaryKey(col_def) == Contains(UpperSeq(col_def), <<"PRIMARY", " ", "KEY">>)

\* the foreign key of a constraint clause: a list of none or one
ForeignKeyOf(table_name, part) ==
  LET fk_match == ReSearch(FkPattern, part)
  IN IF ~fk_match.ok THEN <<>>
     ELSE LET ref_table == Strip(Group(part, fk_match, 2), WS)
          IN << [name |-> <<"fk_", table_name, "_">> \o ref_table,
                 referred_table |-> ref_table,
                 referred_columns |-> StripCols(Strip(Group(part, fk_match, 3), WS)),
                 constrained_columns |-> StripCols(Strip(Group(part, fk_match, 1), WS))] >>

\* columns.append({...}) for the name and the rest of a column clause.  A
\* default of None is the empty text.
ColumnSpec(col_name, col_def) ==
  LET default_match == ReSearch(DefaultPattern, col_def)
      type_match == ReSearch(TypePattern, col_def)
  IN [name |-> col_name,
      type |-> IF type_match.ok THEN Group0(col_def, type_match)
               ELSE <<"UNKNOWN">>,
      nullable |-> Nullable(col_def),
      default |-> IF default_match.ok
                  THEN Group(col_def, default_match, 1) ELSE <<>>,
      primary_key |-> InlinePrimaryKey(col_def)]

\* a clause without a rest still gives a column, of unknown type
ColumnOfUntyped(part) ==
  LET col_match == ReMatch(ColPattern, part)
  IN IF ~col_match.ok THEN << ColumnSpec(Strip(part, {BQ}), <<>>) >>
     ELSE << ColumnSpec(Group(part, col_match, 1), Group(part, col_match, 2)) >>

\* the column of a column clause: a list of none or one
ColumnOf(part) ==
  LET col_match == ReMatch(ColPattern, part)
  IN IF ~col_match.ok THEN <<>>
     ELSE << ColumnSpec(Group(part, col_match, 1), Group(part, col_match, 2)) >>

\* for part in parts: the columns, the constraints and the foreign keys
RECURSIVE PartsLoop(_, _, _)
PartsLoop(table_name, parts, acc) ==
  IF parts = <<>> THEN acc
  ELSE LET part == Strip(Head(parts), WS)
       IN IF part = <<>> THEN PartsLoop(table_name, Tail(parts), acc)
          ELSE IF IsConstraint(part)
          THEN PartsLoop(table_name, Tail(parts),
                 [acc EXCEPT !.constraints = Append(@, part),
                             !.foreign_keys = @ \o ForeignKeyOf(table_name, part)])
          ELSE PartsLoop(table_name, Tail(parts),
                 [acc EXCEPT !.columns = @ \o ColumnOf(part)])

\* for constraint in constraints: the columns of the first PRIMARY KEY (...)
RECURSIVE TablePrimaryKey(_)
TablePrimaryKey(constraints) ==
  IF constraints = <<>> THEN <<>>
  ELSE LET pk_match == ReSearch(PkPattern, Head(constraints))
       IN IF pk_match.ok THEN StripCols(Group(Head(constraints), pk_match, 1))
          ELSE TablePrimaryKey(Tail(constraints))

\* the flagged columns gathered in the reverse of their order
RECURSIVE InlinePrimaryKeysReversed(_)
InlinePrimaryKeysReversed(columns) ==
  IF columns = <<>> THEN <<>>
  ELSE InlinePrimaryKeysReversed(Tail(columns))
       \o (IF Head(columns).primary_key THEN <<Head(columns).name>> ELSE <<>>)

\* for column in columns: if column["primary_key"]: append column["name"]
RECURSIVE InlinePrimaryKeys(_)
InlinePrimaryKeys(columns) ==
  IF columns = <<>> THEN <<>>
  ELSE (IF Head(columns).primary_key THEN <<Head(columns).name>> ELSE <<>>)
       \o InlinePrimaryKeys(Tail(columns))

PrimaryKeyColumns(constraints, columns) ==
  LET pk == TablePrimaryKey(constraints)
  IN IF pk # <<>> THEN pk ELSE InlinePrimaryKeys(columns)

\* a result for a missing table that carries no error field
TableNotFoundEmpty(table_name) == [name |-> table_name, columns |-> <<>>]

\* return {"name": table_name, "error": "Table not found"}
TableNotFound(table_name) == [name |-> table_name, error |-> "Table not found"]

\* schema = {"name", "columns", "primary_key", "foreign_keys"}
BuildSchema(table_name, acc) ==
  [name |-> table_name,
   columns |-> acc.columns,
   primary_key |-> [name |-> "PRIMARY",
                    constrained_columns |->
                      PrimaryKeyColumns(acc.constraints, acc.columns)],
   foreign_keys |-> acc.foreign_keys]

\* the schema get_table_schema computes from the definition of the table
ParseSchema(table_name, create_stmt) ==
  LET col_section_match == ReSearch(ColSectionPattern, create_stmt)
  IN IF ~col_section_match.ok
     THEN [name |-> table_name, columns |-> <<>>,
           error |-> "Failed to extract columns"]
     ELSE BuildSchema(table_name,
            PartsLoop(table_name,
                      split_preserving_parentheses(
                        Group(create_stmt, col_section_match, 1)),
                      [columns |-> <<>>, constraints |-> <<>>,
                       foreign_keys |-> <<>>]))

(***************************************************************************)
(* extract_sample_data: the rows of the INSERT statements                  *)
(***************************************************************************)
\* rf"-- Dumping data for table `{table_name}`\s*--\s*LOCK TABLES.*?INSERT INTO
\*    .*?UNLOCK TABLES"   (re.DOTALL | re.IGNORECASE)
DumpPattern(table_name) ==
  <<LitI("-- Dumping data for table "), Lit(BQ), LitI(table_name), Lit(BQ)>>
  \o Spaces0 \o <<Lit("--")>> \o Spaces0
  \o <<LitI("LOCK TABLES"), Lazy(<<AnyTok>>), LitI("INSERT INTO"),
       Lazy(<<AnyTok>>), LitI("UNLOCK TABLES")>>

\* rf"INSERT INTO `?{table_name}`?\s+(?:VALUES|VALUE)\s*\(.*?\)(?:\s*,\s*\(.*?\))*\s*;"
InsertPattern(table_name) ==
  <<LitI("INSERT INTO"), Lit(" "), Tick, LitI(table_name), Tick>> \o Spaces1
  \o <<Alt(<< <<LitI("VALUES")>>, <<LitI("VALUE")>> >>)>> \o Spaces0
  \o <<Lit("("), Lazy(<<AnyTok>>), Lit(")"),
       Star(Spaces0 \o <<Lit(",")>> \o Spaces0
            \o <<Lit("("), Lazy(<<AnyTok>>), Lit(")")>>)>>
  \o Spaces0 \o <<Lit(";")>>

\* r'VALUES\s*(\(.*\)(?:\s*,\s*\(.*\))*)'   (re.DOTALL | re.IGNORECASE)
ValuesPattern ==
  <<LitI("VALUES")>> \o Spaces0
  \o <<Open(1), Lit("("), Star(<<AnyTok>>), Lit(")"),
       Star(Spaces0 \o <<Lit(",")>> \o Spaces0
            \o <<Lit("("), Star(<<AnyTok>>), Lit(")")>>),
       Close(1)>>

\* r'\((.*?)\)'   (re.DOTALL)
ValueSetPattern == <<Lit("("), Open(1), Lazy(<<AnyTok>>), Close(1), Lit(")")>>

\* a test that takes every comma for a separator
SplitsAtAnyComma(char, st) == char = ","

\* elif char == ',' and not in_quotes and paren_level == 0
SplitsAt(char, st) == char = "," /\ ~st.in_quotes /\ st.paren_level = 0

\* a test that lets any quote character open or close a string
TogglesQuoteAny(char, st) == char \in {"'", "\""}

\* elif char in ["'", '"'] and (not in_quotes or char == quote_char)
TogglesQuote(char, st) ==
  char \in {"'", "\""} /\ (~st.in_quotes \/ char = st.quote_char)

\* _parse_values: the loop over the characters of one tuple
RECURSIVE ParseValuesLoop(_, _, _)
ParseValuesLoop(values_str, i, st) ==
  IF i > Len(values_str)
  THEN IF st.current # <<>> THEN Append(st.values, Strip(st.current, WS))
       ELSE st.values
  ELSE LET char == values_str[i]
           add == Append(st.current, char)
       IN ParseValuesLoop(values_str, i + 1,
            IF st.escape
            THEN [st EXCEPT !.current = add, !.escape = FALSE]
            ELSE IF char = "\\"
            THEN [st EXCEPT !.current = add, !.escape = TRUE]
            ELSE IF TogglesQuote(char, st)
            THEN [st EXCEPT !.in_quotes = ~st.in_quotes,
                            !.quote_char = IF ~st.in_quotes THEN char ELSE "",
                            !.current = add]
            ELSE IF char = "(" /\ ~st.in_quotes
            THEN [st EXCEPT !.paren_level = @ + 1, !.current = add]
            ELSE IF char = ")" /\ ~st.in_quotes
            THEN [st EXCEPT !.paren_level = @ - 1, !.current = add]
            ELSE IF SplitsAt(char, st)
            THEN [st EXCEPT !.values = Append(@, Strip(st.current, WS)),
                            !.current = <<>>]
            ELSE [st EXCEPT !.current = add])

parse_values(values_str) ==
  ParseValuesLoop(values_str, 1,
    [values |-> <<>>, current |-> <<>>, in_quotes |-> FALSE, quote_char |-> "",
     escape |-> FALSE, paren_level |-> 0])

\* A cleaned value: None is [tag |-> "null"]; an int, a float or a str carries
\* its text.
NullValue == [tag |-> "null"]

\* a word of 40 characters
LongWord == "xxxxxxxxxxxxxxxxxxxxxxxxxxxxxxxxxxxxxxxx"

\* a numeral of 53 digits
LongNumeral == "12345678901234567890123456789012345678901234567890123"

\* the words of the inputs made of digits only
DigitWords == {"0", "1", "2", "3", "4", "5", "7", "10", "50", LongNumeral}

\* the words of the inputs made of digits, the letter e and digits
ExpWords == {"1e5"}

\* the text without the white space around it and without its sign
Unsigned(value) ==
  IF value # <<>> /\ value[1] \in {"-", "+"} THEN Tail(value) ELSE value

\* whether int(value) succeeds: digits, with an optional sign, white space
\* around them allowed
IntParsesText(unsigned) == Len(unsigned) = 1 /\ unsigned[1] \in DigitWords

IntParses(value) == IntParsesText(Unsigned(Strip(value, WS)))

\* whether float(value) succeeds: digits, with an optional sign, a point and
\* an exponent, white space around them allowed
FloatParsesText(unsigned) ==
  \/ Len(unsigned) = 1 /\ unsigned[1] \in DigitWords \cup ExpWords
  \/ Len(unsigned) = 3 /\ unsigned[1] \in DigitWords /\ unsigned[2] = "."
     /\ unsigned[3] \in DigitWords \cup ExpWords
  \/ Len(unsigned) = 2 /\ unsigned[1] \in DigitWords /\ unsigned[2] = "."
  \/ Len(unsigned) = 2 /\ unsigned[1] = "." /\ unsigned[2] \in DigitWords \cup ExpWords

FloatParses(value) == FloatParsesText(Unsigned(Strip(value, WS)))

\* str.replace(a + b, with) for two adjacent characters a, b
RECURSIVE ReplacePair(_, _, _, _)
ReplacePair(s, a, b, with) ==
  IF Len(s) < 2 THEN s
  ELSE IF s[1] = a /\ s[2] = b
  THEN with \o ReplacePair(SubSeq(s, 3, Len(s)), a, b, with)
  ELSE <<s[1]>> \o ReplacePair(Tail(s), a, b, with)

\* r'<[^>]+>'
TagPattern == <<Lit("<"), NoneOf({">"}), Star(<<NoneOf({">"})>>), Lit(">")>>

\* re.sub(pattern, repl, text)
RECURSIVE SubMatches(_, _, _, _)
SubMatches(text, from, matches, repl) ==
  IF matches = <<>> THEN SubSeq(text, from, Len(text))
  ELSE SubSeq(text, from, Head(matches).start - 1) \o repl
       \o SubMatches(text, Head(matches).end, Tail(matches), repl)

ReSub(items, repl, text) == SubMatches(text, 1, ReFindAll(items, text), repl)

\* ' '.join(s.split()): runs of white space become one blank, none at the ends
RECURSIVE CollapseSpaces(_)
CollapseSpaces(s) ==
  IF s = <<>> THEN <<>>
  ELSE IF Head(s) \in WS
  THEN <<" ">> \o CollapseSpaces(LStrip(s, WS))
  ELSE <<Head(s)>> \o CollapseSpaces(Tail(s))

JoinSplit(s) == CollapseSpaces(Strip(s, WS))

\* ' '.join(value.replace('\\r', ' ').replace('\\n', ' ').replace('\\t', ' ').split())
NormalizeSpace(value) ==
  JoinSplit(ReplacePair(ReplacePair(ReplacePair(value, "\\", "r", <<" ">>),
                                    "\\", "n", <<" ">>),
                        "\\", "t", <<" ">>))

IsQuoted(value) ==
  \/ value # <<>> /\ Head(value) = "'" /\ value[Len(value)] = "'"
  \/ value # <<>> /\ Head(value) = "\"" /\ value[Len(value)] = "\""

\* re.sub(r'<[^>]+>', ' ', value), then the white space normalized
CleanText(value) == NormalizeSpace(ReSub(TagPattern, <<" ">>, value))

\* an unquoting that leaves the escaped quotes as they are written
UnquoteKeepEscapes(value) == SubSeq(value, 2, Len(value) - 1)

\* value[1:-1].replace("\\'", "'").replace('\\"', '"')
Unquote(value) ==
  ReplacePair(ReplacePair(SubSeq(value, 2, Len(value) - 1), "\\", "'", <<"'">>),
              "\\", "\"", <<"\"">>)

\* _clean_value
clean_value(value) ==
  IF UpperSeq(value) = <<"NULL">> \/ Strip(value, WS) = <<>>
  THEN NullValue
  ELSE IF IsQuoted(value)
  THEN [tag |-> "str", v |-> CleanText(Unquote(value))]
  ELSE IF "." \in Range(value) /\ FloatParses(value)
  THEN [tag |-> "float", v |-> Strip(value, WS)]
  ELSE IF "." \notin Range(value) /\ IntParses(value)
  THEN [tag |-> "int", v |-> Strip(value, WS)]
  ELSE [tag |-> "str", v |-> CleanText(value)]

\* a row loop that also stores the values that are None
RECURSIVE RowLoopKeepNull(_, _, _, _)
RowLoopKeepNull(values, column_names, i, row_data) ==
  IF i > Len(values) THEN row_data
  ELSE RowLoopKeepNull(values, column_names, i + 1,
         IF i <= Len(column_names)
         THEN (column_names[i] :> clean_value(values[i])) @@ row_data
         ELSE row_data)

\* a store that puts a value beyond the known columns under the last column
RowPutWrap(row_data, column_names, i, clean) ==
  IF clean # NullValue
  THEN (column_names[IF i <= Len(column_names) THEN i ELSE Len(column_names)]
          :> clean) @@ row_data
  ELSE row_data

\* row_data[column_names[i]] = clean_value, for a value that is not None
RowPut(row_data, column_names, i, clean) ==
  IF i <= Len(column_names) /\ clean # NullValue
  THEN (column_names[i] :> clean) @@ row_data
  ELSE row_data

\* for i, value in enumerate(values): the row of one tuple, a mapping from the
\* column names to the values that are not None
RECURSIVE RowLoop(_, _, _, _)
RowLoop(values, column_names, i, row_data) ==
  IF i > Len(values) THEN row_data
  ELSE RowLoop(values, column_names, i + 1,
               RowPut(row_data, column_names, i, clean_value(values[i])))

EmptyRow == <<>>

\* if row_data: sample_data.append(row_data)
AppendRow(sample_data, row_data) ==
  IF DOMAIN row_data # {} THEN Append(sample_data, row_data) ELSE sample_data

\* a loop over the tuples that never looks at the limit
RECURSIVE ValueSetsLoopNoLimit(_, _, _, _)
ValueSetsLoopNoLimit(value_sets, column_names, limit, sample_data) ==
  IF value_sets = <<>> THEN sample_data
  ELSE ValueSetsLoopNoLimit(Tail(value_sets), column_names, limit,
         AppendRow(sample_data,
                   RowLoop(parse_values(Head(value_sets)), column_names,
                           1, EmptyRow)))

\* for value_set in value_sets: stops once limit rows are extracted
RECURSIVE ValueSetsLoop(_, _, _, _)
ValueSetsLoop(value_sets, column_names, limit, sample_data) ==
  IF value_sets = <<>> \/ Len(sample_data) >= limit THEN sample_data
  ELSE ValueSetsLoop(Tail(value_sets), column_names, limit,
         AppendRow(sample_data,
                   RowLoop(parse_values(Head(value_sets)), column_names,
                           1, EmptyRow)))

\* the texts of the groups 1 of the matches
Groups1(text, matches) ==
  [i \in 1..Len(matches) |-> Group(text, matches[i], 1)]

\* value_sets = re.findall(r'\((.*?)\)', values_str, re.DOTALL)
ValueSets(values_str) ==
  Groups1(values_str, ReFindAll(ValueSetPattern, values_str))

RECURSIVE StatementsLoop(_, _, _, _)
\* if rows_extracted >= limit: break
AfterStatement(statements, column_names, limit, data) ==
  IF Len(data) >= limit THEN data
  ELSE StatementsLoop(Tail(statements), column_names, limit, data)

\* the body of the loop for the first statement, values_match being its match
StatementBody(statements, column_names, limit, sample_data, values_match) ==
  IF ~values_match.ok
  THEN StatementsLoop(Tail(statements), column_names, limit, sample_data)
  ELSE AfterStatement(statements, column_names, limit,
         ValueSetsLoop(ValueSets(Group(Head(statements), values_match, 1)),
                       column_names, limit, sample_data))

\* for statement in insert_statements[:limit]
StatementsLoop(statements, column_names, limit, sample_data) ==
  IF statements = <<>> THEN sample_data
  ELSE StatementBody(statements, column_names, limit, sample_data,
                     ReSearch(ValuesPattern, Head(statements)))

\* insert_statements[:limit] for limit >= 0
Take(s, n) == SubSeq(s, 1, IF n < Len(s) THEN n ELSE Len(s))

\* the texts of the matches
Groups0(text, matches) ==
  [i \in 1..Len(matches) |-> Group0(text, matches[i])]

\* the rows of the INSERT statements found in the section
StatementRows(insert_statements, column_names, limit) ==
  IF insert_statements = <<>> THEN <<>>
  ELSE StatementsLoop(Take(insert_statements, limit), column_names, limit, <<>>)

\* the rows of the data section of the table
SectionRows(table_name, column_names, dump_section, limit) ==
  StatementRows(Groups0(dump_section,
                        ReFindAll(InsertPattern(table_name), dump_section)),
                column_names, limit)

\* extract_sample_data after the schema and the text are obtained
SampleRows(table_name, column_names, sql_content, limit) ==
  LET dump_match == ReSearch(DumpPattern(table_name), sql_content)
  IN IF ~dump_match.ok THEN <<>>
     ELSE SectionRows(table_name, column_names,
                      Group0(sql_content, dump_match), limit)

(***************************************************************************)
(* The parser object: its methods as steps on (definitions, cache)         *)
(***************************************************************************)
\* the outcome of a call: whether it raised, what it returned, the object's
\* fields after it, and how often it invoked _read_sql_file
Outcome(raised, result, defs, cache) ==
  [raised |-> raised, result |-> result, defs |-> defs, cache |-> cache,
   reads |-> 0]

\* self._read_sql_file() was invoked on the way to the outcome
ReadBy(o) == [o EXCEPT !.reads = @ + 1]

\* the outcome o of the code that runs after the code with outcome e
After(e, o) == [o EXCEPT !.reads = @ + e.reads]

\* the result slot of a call that raised
NoResult == <<>>

\* a store of the schema as it is before the primary key is filled in
CacheStoreEarly(cache, table_name, schema) ==
  (table_name :> [schema EXCEPT !.primary_key.constrained_columns = <<>>]) @@ cache

\* self._schema_cache[table_name] = schema
CacheStore(cache, table_name, schema) == (table_name :> schema) @@ cache

\* a build whose mapping is returned while an empty one is kept
BuiltNotStored(built, cache) == Outcome(FALSE, built, EmptyDict, cache)

\* the outcome of a call that built the mapping
Built(built, cache) == Outcome(FALSE, built, built, cache)

\* extract_table_definitions: the cached mapping, or the mapping built from
\* the text just read.  It raises when the file has to be read and cannot be.
ExtractDefs(in, ok, defs, cache) ==
  IF ~IsNone(defs) THEN Outcome(FALSE, defs, defs, cache)
  ELSE IF ~ok THEN ReadBy(Outcome(TRUE, NoResult, defs, cache))
  ELSE ReadBy(Built(BuildTableDefinitions(DumpText(in)), cache))

\* a store of every computed result, the error-bearing ones too
ComputedCacheAll(defs, cache, table_name, schema) ==
  Outcome(FALSE, schema, defs, CacheStore(cache, table_name, schema))

\* the schema computed by get_table_schema, cached unless it carries an error
Computed(defs, cache, table_name, schema) ==
  IF "error" \in DOMAIN schema
  THEN Outcome(FALSE, schema, defs, cache)
  ELSE Outcome(FALSE, schema, defs, CacheStore(cache, table_name, schema))

\* a lookup that caches the result for a table that is not found
SchemaFromDefsCaching(e, cache, table_name) ==
  IF e.raised THEN e
  ELSE IF ~HasKey(e.defs, table_name)
  THEN After(e, Outcome(FALSE, TableNotFound(table_name), e.defs,
                        CacheStore(cache, table_name, TableNotFound(table_name))))
  ELSE After(e, Computed(e.defs, cache, table_name,
                         ParseSchema(table_name, e.defs.val[table_name])))

\* get_table_schema after the cache is missed, e being the outcome of
\* extract_table_definitions
SchemaFromDefs(e, cache, table_name) ==
  IF e.raised THEN e
  ELSE IF ~HasKey(e.defs, table_name)
  THEN After(e, Outcome(FALSE, TableNotFound(table_name), e.defs, cache))
  ELSE After(e, Computed(e.defs, cache, table_name,
                         ParseSchema(table_name, e.defs.val[table_name])))

\* get_table_schema
GetSchema(in, ok, defs, cache, table_name) ==
  IF table_name \in DOMAIN cache
  THEN Outcome(FALSE, cache[table_name], defs, cache)
  ELSE SchemaFromDefs(ExtractDefs(in, ok, defs, cache), cache, table_name)

\* get_full_database_schema: {table: get_table_schema(table) for table in names}
RECURSIVE FullSchemaLoop(_, _, _, _)
\* a loop that leaves the error-bearing results out of the mapping
FullSchemaPutSkipErrors(in, ok, names, acc, o) ==
  IF o.raised THEN After(acc, o)
  ELSE FullSchemaLoop(in, ok, Tail(names),
                      After(acc, [o EXCEPT !.result =
                                    IF "error" \in DOMAIN o.result THEN acc.result
                                    ELSE DictPut(acc.result, Head(names), o.result)]))

\* the schema o of the first name is stored, then the other names follow
FullSchemaPut(in, ok, names, acc, o) ==
  IF o.raised THEN After(acc, o)
  ELSE FullSchemaLoop(in, ok, Tail(names),
                      After(acc, [o EXCEPT !.result =
                                    DictPut(acc.result, Head(names), o.result)]))

\* acc: the fields of the object so far, and the mapping so far as its result
FullSchemaLoop(in, ok, names, acc) ==
  IF names = <<>> THEN acc
  ELSE FullSchemaPut(in, ok, names, acc,
                     GetSchema(in, ok, acc.defs, acc.cache, Head(names)))

\* the loop over the names of the mapping e holds
FullSchemaOf(in, ok, e) ==
  IF e.raised THEN e
  ELSE FullSchemaLoop(in, ok, e.defs.keys, [e EXCEPT !.result = EmptyDict])

GetFullSchema(in, ok, defs, cache) ==
  FullSchemaOf(in, ok, ExtractDefs(in, ok, defs, cache))

\* schema.get("columns") is missing or empty
NoColumns(schema) == "columns" \notin DOMAIN schema \/ schema.columns = <<>>

\* column_names = [col["name"] for col in schema["columns"]]
ColumnNamesOf(schema) ==
  [i \in 1..Len(schema.columns) |-> schema.columns[i].name]

\* extract_sample_data after get_table_schema, o being its outcome: the file
\* is read again
SampleFromSchema(in, ok, table_name, limit, o) ==
  IF o.raised THEN o
  ELSE IF NoColumns(o.result) THEN [o EXCEPT !.result = <<>>]
  ELSE IF ~ok THEN ReadBy([o EXCEPT !.raised = TRUE, !.result = NoResult])
  ELSE ReadBy([o EXCEPT !.result = SampleRows(table_name, ColumnNamesOf(o.result),
                                              DumpText(in), limit)])

\* extract_sample_data
ExtractSample(in, ok, defs, cache, table_name, limit) ==
  SampleFromSchema(in, ok, table_name, limit,
                   GetSchema(in, ok, defs, cache, table_name))

(***************************************************************************)
(* create_vector_chunks: the text block of a table                         *)
(***************************************************************************)
\* ', '.join(names)
CommaJoin(names) == Join(names, <<", ">>)

\* schema.get('primary_key', {}).get('constrained_columns', [])
PkColumnsOf(schema) ==
  IF "primary_key" \in DOMAIN schema THEN schema.primary_key.constrained_columns
  ELSE <<>>

\* schema.get('foreign_keys', [])
ForeignKeysOf(schema) ==
  IF "foreign_keys" \in DOMAIN schema THEN schema.foreign_keys ELSE <<>>

\* schema.get('columns', [])
ColumnsOf(schema) == IF "columns" \in DOMAIN schema THEN schema.columns ELSE <<>>

\* f"PRIMARY KEY: {', '.join(pk_columns)}\n" when there are such columns
PkText(pk_columns) ==
  IF pk_columns # <<>>
  THEN <<"PRIMARY KEY: ">> \o CommaJoin(pk_columns) \o <<"\n">>
  ELSE <<>>

\* f"  {const_cols} -> {ref_table}({ref_cols})\n", the arrow being one character
FkText(fk) ==
  <<"  ">> \o CommaJoin(fk.constrained_columns) \o <<" -> ">> \o fk.referred_table
  \o <<"(">> \o CommaJoin(fk.referred_columns) \o <<")", "\n">>

FksText(foreign_keys) ==
  IF foreign_keys # <<>>
  THEN <<"FOREIGN KEYS:", "\n">>
       \o Flatten([i \in 1..Len(foreign_keys) |-> FkText(foreign_keys[i])])
       \o <<"\n">>
  ELSE <<>>

\* attrs: "PK" for a primary key column, "NOT NULL" for a column not nullable
AttrsOf(col, pk_columns) ==
  (IF col.name \in Range(pk_columns) THEN << <<"PK">> >> ELSE <<>>)
  \o (IF ~col.nullable THEN << <<"NOT NULL">> >> ELSE <<>>)

\* f" ({', '.join(attrs)})" if attrs else ""
AttrsText(attrs) ==
  IF attrs # <<>> THEN <<" (">> \o CommaJoin(attrs) \o <<")">> ELSE <<>>

\* len() of a token: the words of more than one character are listed
CharLen(tok) ==
  CASE tok \in {"it", "10", "50"} -> 2
    [] tok \in {"Bob", "..."} -> 3
    [] tok = LongWord -> 40
    [] tok = LongNumeral -> 53
    [] tok = "NULL" -> 4
    [] tok \in {"Alice", "admin", "POINT"} -> 5
    [] OTHER -> 1

RECURSIVE TextLen(_)
TextLen(text) == IF text = <<>> THEN 0 ELSE CharLen(Head(text)) + TextLen(Tail(text))

\* text[:n], for a text cut between two tokens
RECURSIVE TakeChars(_, _)
TakeChars(text, n) ==
  IF text = <<>> \/ CharLen(Head(text)) > n THEN <<>>
  ELSE <<Head(text)>> \o TakeChars(Tail(text), n - CharLen(Head(text)))

\* a cut that does not look at the type of the value
ShortenAny(val) ==
  IF TextLen(val.v) > 50
  THEN [val EXCEPT !.v = TakeChars(val.v, 47) \o <<"...">>]
  ELSE val

\* if isinstance(val, str) and len(val) > 50: val = val[:47] + "..."
Shorten(val) ==
  IF val.tag = "str" /\ TextLen(val.v) > 50
  THEN [val EXCEPT !.v = TakeChars(val.v, 47) \o <<"...">>]
  ELSE val

\* the digits str() writes after the point for the digits read
FractionDigits(tok) ==
  CASE tok = "10" -> "1"
    [] tok = "50" -> "5"
    [] OTHER -> tok

\* str(float(text)) for the texts float() accepts: digits, a point, digits
FloatText(value) ==
  LET unsigned == IF value[1] \in {"-", "+"} THEN Tail(value) ELSE value
      whole == IF unsigned[1] = "." THEN "0" ELSE unsigned[1]
      frac == IF unsigned[Len(unsigned)] = "." THEN "0"
              ELSE FractionDigits(unsigned[Len(unsigned)])
  IN (IF value[1] = "-" THEN <<"-">> ELSE <<>>) \o <<whole, ".", frac>>

\* f"{val}"
FormatValue(val) == IF val.tag = "float" THEN FloatText(val.v) ELSE val.v

\* f" = {val}" for a column the sample row has a value for
SampleText(col_name, sample_row) ==
  IF col_name \in DOMAIN sample_row
  THEN <<" = ">> \o FormatValue(Shorten(sample_row[col_name]))
  ELSE <<>>

\* f"  - {col_name}: {col_type}{attrs_str}{sample_val}\n"
ColumnText(col, pk_columns, sample_row) ==
  <<"  - ">> \o col.name \o <<": ">> \o col.type
  \o AttrsText(AttrsOf(col, pk_columns)) \o SampleText(col.name, sample_row)
  \o <<"\n">>

ColumnsText(columns, pk_columns, sample_row) ==
  Flatten([i \in 1..Len(columns) |-> ColumnText(columns[i], pk_columns, sample_row)])

\* content
ChunkContent(table_name, schema, sample_row) ==
  <<"TABLE: ", table_name, "\n", "\n", "SCHEMA:", "\n">>
  \o PkText(PkColumnsOf(schema)) \o FksText(ForeignKeysOf(schema))
  \o <<"COLUMNS WITH SAMPLE DATA:", "\n">>
  \o ColumnsText(ColumnsOf(schema), PkColumnsOf(schema), sample_row)

\* sample_row = sample_data[0] if sample_data else {}
SampleRowOf(sample_data) == IF Len(sample_data) > 0 THEN sample_data[1] ELSE EmptyRow

\* 1 if sample_data else 0
SampleCount(sample_data) == IF Len(sample_data) > 0 THEN 1 ELSE 0

\* the chunk returned
Chunk(table_name, schema, sample_data) ==
  [table_name |-> table_name,
   content |-> ChunkContent(table_name, schema, SampleRowOf(sample_data)),
   metadata |-> [table |-> table_name, type |-> "table_with_samples",
                 sample_count |-> SampleCount(sample_data)]]

\* a call that hands its own limit to extract_sample_data
ChunkSampleLimitPassed(limit) == limit

\* self.extract_sample_data(table_name, limit=1)
ChunkSampleLimit(limit) == 1

\* create_vector_chunks after extract_sample_data, d being its outcome
ChunksFromSample(table_name, schema, d) ==
  IF d.raised THEN d
  ELSE [d EXCEPT !.result = <<Chunk(table_name, schema, d.result)>>]

\* create_vector_chunks after get_table_schema, s being its outcome
ChunksFromSchema(in, ok, table_name, limit, s) ==
  IF s.raised THEN s
  ELSE IF DOMAIN s.result = {} THEN [s EXCEPT !.result = <<>>]
  ELSE After(s, ChunksFromSample(table_name, s.result,
                  ExtractSample(in, ok, s.defs, s.cache, table_name,
                                ChunkSampleLimit(limit))))

\* create_vector_chunks
CreateChunks(in, ok, defs, cache, table_name, limit) ==
  ChunksFromSchema(in, ok, table_name, limit,
                   GetSchema(in, ok, defs, cache, table_name))

(***************************************************************************)
(* The state machine                                                       *)
(***************************************************************************)
\* the record of a call: its arguments, whether it raised, what it returned
\* (or the exception it raised) and how often it invoked _read_sql_file
Call(op, name, limit, o) ==
  [op |-> op, name |-> name, limit |-> limit, raised |-> o.raised,
   result |-> o.result, reads |-> o.reads]

\* the state after __init__ on an existing file
Constructed ==
  /\ fileOk = TRUE
  /\ constructed = TRUE
  /\ table_definitions = None
  /\ schema_cache = <<>>
  /\ last = Call("init", "", 0, Outcome(FALSE, NoResult, None, <<>>))
  /\ first_schema = <<>>
  /\ repeated = {}
  /\ read_done = FALSE

\* a method of the object returns or raises with outcome o
Finish(op, name, limit, o) ==
  /\ constructed
  /\ table_definitions' = o.defs
  /\ schema_cache' = o.cache
  /\ last' = Call(op, name, limit, o)
  /\ first_schema' =
       IF /\ op = "get_table_schema" /\ ~o.raised
          /\ "error" \notin DOMAIN o.result /\ name \notin DOMAIN first_schema
       THEN (name :> o.result) @@ first_schema
       ELSE first_schema
  /\ repeated' =
       IF op = "get_table_schema" /\ name \in DOMAIN first_schema
       THEN repeated \cup {name}
       ELSE repeated
  /\ read_done' = (read_done \/ o.reads > 0)
  /\ UNCHANGED <<input, fileOk, constructed>>

\* list(self.extract_table_definitions().keys())
NamesOf(e) == IF e.raised THEN e ELSE [e EXCEPT !.result = e.defs.keys]

\* get_all_table_names()
GetAllTableNames ==
  Finish("get_all_table_names", "", 0,
         NamesOf(ExtractDefs(input, fileOk, table_definitions, schema_cache)))

GetTableSchema(name) ==
  Finish("get_table_schema", name, 0,
         GetSchema(input, fileOk, table_definitions, schema_cache, name))

GetFullDatabaseSchema ==
  Finish("get_full_database_schema", "", 0,
         GetFullSchema(input, fileOk, table_definitions, schema_cache))

ExtractSampleData(name, limit) ==
  Finish("extract_sample_data", name, limit,
         ExtractSample(input, fileOk, table_definitions, schema_cache, name, limit))

CreateVectorChunks(name, limit) ==
  Finish("create_vector_chunks", name, limit,
         CreateChunks(input, fileOk, table_definitions, schema_cache, name, limit))

\* a check that passes for every path
PathExistsAlways(ok) == TRUE

\* os.path.exists(sql_file_path)
PathExists(ok) == ok

\* no parser object yet
NotConstructed ==
  /\ constructed = FALSE
  /\ table_definitions = None
  /\ schema_cache = <<>>
  /\ last = Call("none", "", 0, Outcome(FALSE, NoResult, None, <<>>))
  /\ first_schema = <<>>
  /\ repeated = {}
  /\ read_done = FALSE

\* __init__(sql_file_path): raises FileNotFoundError unless the path exists,
\* else sets the fields
Construct ==
  /\ ~constructed /\ last.op = "none"
  /\ constructed' = PathExists(fileOk)
  /\ last' = IF PathExists(fileOk)
             THEN Call("init", "", 0, Outcome(FALSE, NoResult, None, <<>>))
             ELSE Call("init", "", 0,
                       Outcome(TRUE, "FileNotFoundError", None, <<>>))
  /\ table_definitions' = None
  /\ schema_cache' = <<>>
  /\ UNCHANGED <<input, fileOk, first_schema, repeated, read_done>>

\* the environment: the file is removed or becomes unreadable
FileLost ==
  /\ fileOk
  /\ fileOk' = FALSE
  /\ UNCHANGED <<input, table_definitions, schema_cache, last, first_schema,
                 repeated, constructed, read_done>>

\* a private method called on its own: the fields of the object stay
Returned(result) == Outcome(FALSE, result, table_definitions, schema_cache)

\* _parse_values on the values of the k-th tuple of the data section
ParseValuesCall(k) ==
  Finish("_parse_values", "", k,
         Returned(parse_values(ValuesText(input.data[1].rows[k].vals))))

\* a quoted token: the content between the quotes, its quotes escaped
RECURSIVE EscapeQuotes(_)
EscapeQuotes(content) ==
  IF content = <<>> THEN <<>>
  ELSE (IF Head(content) \in {"'", "\""} THEN <<"\\", Head(content)>>
        ELSE <<Head(content)>>)
       \o EscapeQuotes(Tail(content))

QuotedText(in) == <<in.quote>> \o EscapeQuotes(in.content) \o <<in.quote>>

\* _clean_value on the quoted token
CleanValueCall ==
  Finish("_clean_value", "", 0, Returned(clean_value(QuotedText(input))))

\* _parse_values on the text as it is
ParseTextCall ==
  Finish("_parse_values", "", 0, Returned(parse_values(input.text)))

\* _clean_value on the token as it is
CleanTokenCall ==
  Finish("_clean_value", "", 0, Returned(clean_value(input.token)))

\* _split_preserving_parentheses on the text
SplitCall ==
  Finish("_split_preserving_parentheses", "", 0,
         Returned(split_preserving_parentheses(input.text)))

(***************************************************************************)
(* The dumps the parser is run on                                          *)
(***************************************************************************)
MaxTables == 2   \* CREATE TABLE statements in a dump
MaxCols == 3     \* column clauses in a table
MaxCons == 1     \* constraint clauses in a table
MaxRows == 3     \* tuples in a data section
MaxLimit == 2    \* the small limits of extract_sample_data
MaxVals == 3     \* values in a tuple
MaxStr == 3      \* tokens between the quotes of a string
MaxText == 4     \* tokens of a text given to the clause splitter
MaxNum == 3      \* tokens of an unquoted value

\* def extract_sample_data(self, table_name: str, limit: int = 5)
DefaultLimit == 5

SeqsOf(S, lo, hi) == UNION {[1..n -> S] : n \in lo..hi}

Col(name, type, notnull, pk) ==
  [kind |-> "col", name |-> name, type |-> type, notnull |-> notnull, pk |-> pk]

\* column clauses without their names
ColumnMenu ==
  {[type |-> "INT", notnull |-> "no", pk |-> "upper"],
   [type |-> "VARCHAR(50)", notnull |-> "upper", pk |-> "no"],
   [type |-> "DECIMAL(10,2)", notnull |-> "no", pk |-> "no"],
   [type |-> "int", notnull |-> "lower", pk |-> "lower"]}

\* the name of the column at each position
ColNames == <<"id", "name", "bio", "price">>

\* the table constraints, in the order a declaration lists them
ConstraintMenu ==
  <<[kind |-> "pk", cols |-> <<"id">>],
    [kind |-> "pk", cols |-> <<"name", "id">>],
    [kind |-> "fk", cols |-> <<"id">>, reftable |-> "u", refcols |-> <<"id">>],
    [kind |-> "fk", cols |-> <<"id", "name">>, reftable |-> "v",
     refcols |-> <<"a", "b">>],
    [kind |-> "unique", cols |-> <<"name">>]>>

\* at most MaxCons distinct constraints of the menu
ConstraintLists ==
  {[i \in 1..Len(idx) |-> ConstraintMenu[idx[i]]] :
     idx \in {s \in SeqsOf(DOMAIN ConstraintMenu, 0, MaxCons) :
                \A i \in 1..(Len(s) - 1) : s[i] < s[i + 1]}}

Table(name, style, clauses, tail) ==
  [name |-> name, style |-> style, clauses |-> clauses, tail |-> tail]

\* one table t: columns, then constraints; plain with ";" or quoted with ENGINE
SchemaTables ==
  {Table("t", style,
         [i \in 1..Len(cs) |-> Col(ColNames[i], cs[i].type, cs[i].notnull, cs[i].pk)]
         \o ks,
         IF style = "plain" THEN "semi" ELSE "engine") :
     style \in {"plain", "quoted"},
     cs \in SeqsOf(ColumnMenu, 1, MaxCols),
     ks \in ConstraintLists}

\* CREATE TABLE users (id INT PRIMARY KEY, name VARCHAR(50) NOT NULL);
UsersTable ==
  Table("users", "plain",
        <<Col("id", "INT", "no", "upper"), Col("name", "VARCHAR(50)", "upper", "no")>>,
        "semi")

SchemaInputs ==
  {[tables |-> <<tb>>, data |-> <<>>] : tb \in SchemaTables \cup {UsersTable}}

IntVal(n) == [tag |-> "int", v |-> n]
StrVal(toks) == [tag |-> "str", v |-> toks]

\* the tuples of the data sections
TupleMenu ==
  {<<IntVal("1"), StrVal(<<"Alice">>), NullValue>>,
   <<IntVal("2"), StrVal(<<"Bob">>), StrVal(<<"x">>)>>,
   <<NullValue, NullValue, NullValue>>}

SampleTable ==
  Table("t", "plain",
        <<Col("id", "INT", "no", "no"), Col("name", "VARCHAR(50)", "no", "no"),
          Col("bio", "TEXT", "no", "no")>>, "semi")

\* the tuples of a data section, spread over one or two INSERT statements
RowLists ==
  {rows \in SeqsOf([vals : TupleMenu, newStmt : BOOLEAN], 0, MaxRows) :
     /\ rows # <<>> => rows[1].newStmt
     /\ Cardinality({i \in 1..Len(rows) : rows[i].newStmt}) <= 2}

\* the data section of t after its comment marker, or without the marker when
\* it has at most one tuple
SampleData ==
  {d \in [table : {"t"}, marker : BOOLEAN, rows : RowLists] :
     d.marker \/ Len(d.rows) <= 1}

SampleInputs == {[tables |-> <<SampleTable>>, data |-> <<d>>] : d \in SampleData}

SpacedInt(n) == [tag |-> "sint", v |-> n]
CallVal(toks) == [tag |-> "call", v |-> toks]

\* the values of the tuples: 1, NULL, 'a,b', 'Alice (admin)', POINT(1,2), and 1
\* after a blank
ValueMenu ==
  {IntVal("1"), SpacedInt("1"), NullValue,
   StrVal(<<"a", ",", "b">>),
   StrVal(<<"Alice", " ", "(", "admin", ")">>),
   CallVal(<<"POINT", "(", "1", ",", "2", ")">>)}

\* CREATE TABLE t (id INT, name VARCHAR(50));
TupleTable ==
  Table("t", "plain",
        <<Col("id", "INT", "no", "no"), Col("name", "VARCHAR(50)", "no", "no")>>,
        "semi")

\* one INSERT statement of one tuple of up to MaxVals values
TupleInputs ==
  {[tables |-> <<TupleTable>>,
    data |-> <<[table |-> "t", marker |-> TRUE,
                rows |-> <<[vals |-> vals, newStmt |-> TRUE]>>]>>] :
     vals \in SeqsOf(ValueMenu, 0, MaxVals)}

\* quoted tokens: the text between the quotes, with quotes in it
QuotedInputs ==
  [quote : {"'", "\""}, content : SeqsOf({"it", "s", "'", "\""}, 1, MaxStr)]

\* no two words stand side by side: a run of word characters is one token
WellTokenized(text) ==
  \A i \in 1..(Len(text) - 1) : ~(IsWord(text[i]) /\ IsWord(text[i + 1]))

\* unquoted tokens: digits, a sign, a point, an exponent, words, blanks
NumberInputs ==
  {[token |-> t] :
     t \in {x \in SeqsOf({"1", "5", ".", "-", "1e5", "abc", "NULL", "null", " "},
                          0, MaxNum) : WellTokenized(x)}}

\* 'a\',b', 2
EscapedQuoteText == <<"'", "a", "\\", "'", ",", "b", "'", ",", " ", "2">>

\* 'a"b,c', 2
OtherQuoteText == <<"'", "a", "\"", "b", ",", "c", "'", ",", " ", "2">>

\* texts of quotes, backslashes, commas, a parenthesis and a word, and the two
\* texts above
EscapeInputs ==
  {[text |-> t] :
     t \in {x \in SeqsOf({"a", ",", "'", "\"", "\\", "("}, 0, MaxText) :
              WellTokenized(x)}
           \cup {EscapedQuoteText, OtherQuoteText}}

\* a string of n characters, n > 40: the word of 40 characters and -x-x-...
LongText(n) ==
  <<LongWord>> \o [i \in 1..(n - 40) |-> IF i % 2 = 1 THEN "-" ELSE "x"]

\* sample values around the length of 50: strings of 47 to 53 characters, a
\* short string, a numeral of 53 digits, 1.5 and NULL
LongValues ==
  {StrVal(LongText(n)) : n \in {47, 50, 51, 52, 53}}
  \cup {StrVal(<<"Alice">>), CallVal(<<LongNumeral>>),
        CallVal(<<"1", ".", "5">>),
        [tag |-> "null", v |-> <<>>]}

\* CREATE TABLE t (a TEXT, b TEXT);
LongTable ==
  Table("t", "plain",
        <<Col("a", "TEXT", "no", "no"), Col("b", "TEXT", "no", "no")>>, "semi")

\* one INSERT statement of one tuple of two of the values
LongInputs ==
  {[tables |-> <<LongTable>>,
    data |-> <<[table |-> "t", marker |-> TRUE,
                rows |-> <<[vals |-> p, newStmt |-> TRUE]>>]>>] :
     p \in LongValues \X LongValues}

\* FOREIGN KEY (a,b) REFERENCES t(a,b)
FkClause ==
  <<"FOREIGN", " ", "KEY", " ", "(", "a", ",", "b", ")", " ", "REFERENCES", " ",
    "t", "(", "a", ",", "b", ")">>

\* texts of brackets, commas and a word, and the foreign key clause alone and
\* after a column clause
SplitInputs ==
  {[text |-> t] :
     t \in SeqsOf({"a", ",", "(", ")", "[", "}"}, 0, MaxText)
           \cup {FkClause, <<"id", " ", "INT", ",", " ">> \o FkClause}}

\* the declarations of the dumps the whole object is exercised on
DeclMenu ==
  {Table("t", "plain",
         <<Col("id", "INT", "no", "upper"),
           Col("name", "VARCHAR(50)", "upper", "no")>>, "semi"),
   Table("t", "quoted",
         <<Col("id", "INT", "upper", "no"), [kind |-> "pk", cols |-> <<"id">>]>>,
         "engine"),
   Table("u", "plain", <<Col("id", "INT", "no", "no")>>, "semi"),
   Table("u", "quoted", <<Col("id", "INT", "no", "upper")>>, "charset")}

ObjectInputs ==
  {[tables |-> tbs,
    data |-> <<[table |-> "t", marker |-> TRUE,
                rows |-> <<[vals |-> <<IntVal("1"), StrVal(<<"Alice">>)>>,
                            newStmt |-> TRUE],
                           [vals |-> <<IntVal("2"), StrVal(<<"Bob">>)>>,
                            newStmt |-> FALSE]>>]>>] :
     tbs \in {ds \in SeqsOf(DeclMenu, 1, MaxTables) :
                \A i, j \in 1..Len(ds) : i < j => ds[i] # ds[j]}}

\* the tuples 1,'Alice' and 2,'Bob' of one statement, or NULL,NULL and
\* 1,'Alice' of two statements
ChunkRows ==
  {<<[vals |-> <<IntVal("1"), StrVal(<<"Alice">>)>>, newStmt |-> TRUE],
     [vals |-> <<IntVal("2"), StrVal(<<"Bob">>)>>, newStmt |-> FALSE]>>,
   <<[vals |-> <<NullValue, NullValue>>, newStmt |-> TRUE],
     [vals |-> <<IntVal("1"), StrVal(<<"Alice">>)>>, newStmt |-> TRUE]>>}

\* the dumps create_vector_chunks is run on: one declaration, and data for t
\* or for u
ChunkInputs ==
  {[tables |-> <<tb>>,
    data |-> <<[table |-> name, marker |-> TRUE, rows |-> rows]>>] :
     tb \in DeclMenu, name \in {"t", "u"}, rows \in ChunkRows}

\* column names that begin with the letters of a constraint keyword, and one
\* that does not
KeywordNames == {"id", "keyword", "checksum", "index_no"}

\* one table t of INT columns with these names, with or without PRIMARY KEY (id)
KeywordInputs ==
  {[tables |-> <<Table("t", style,
                       [i \in 1..Len(ns) |-> Col(ns[i], "INT", "no", "no")] \o ks,
                       IF style = "plain" THEN "semi" ELSE "engine")>>,
    data |-> <<>>] :
     style \in {"plain", "quoted"},
     ns \in SeqsOf(KeywordNames, 1, MaxCols),
     ks \in {<<>>, <<[kind |-> "pk", cols |-> <<"id">>]>>}}

\* the column clauses and the constraint lists a bare identifier is put among
BareColumns ==
  {Col("id", "INT", "no", "upper"), Col("name", "VARCHAR(50)", "upper", "no")}

BareConstraints ==
  {<<>>, <<[kind |-> "pk", cols |-> <<"name">>]>>,
   <<[kind |-> "fk", cols |-> <<"id">>, reftable |-> "u", refcols |-> <<"id">>]>>}

\* the clauses with the bare identifier x put before the k-th of them
WithBare(clauses, k) ==
  SubSeq(clauses, 1, k - 1) \o <<[kind |-> "bare", name |-> "x"]>>
  \o SubSeq(clauses, k, Len(clauses))

\* one table t with a bare identifier somewhere among its clauses
BareInputs ==
  {[tables |-> <<Table("t", style, WithBare(cl.clauses, cl.k),
                       IF style = "plain" THEN "semi" ELSE "engine")>>,
    data |-> <<>>] :
     style \in {"plain", "quoted"},
     cl \in {c \in [clauses : {cs \o ks : cs \in SeqsOf(BareColumns, 1, MaxCols),
                                          ks \in BareConstraints},
                    k : 1..(MaxCols + 2)] :
               c.k <= Len(c.clauses) + 1}}

\* what may stand between the closing parenthesis and the semicolon
Tails == {"semi", "engine", "engine_charset", "charset", "comment"}

\* one table t with each of the trailing options
TailInputs ==
  {[tables |-> <<Table("t", style, cs, tail)>>, data |-> <<>>] :
     style \in {"plain", "quoted"},
     cs \in SeqsOf(BareColumns, 1, MaxCols),
     tail \in Tails}

\* the limits extract_sample_data is called with
SampleLimits == (0..MaxLimit) \cup {DefaultLimit}

\* the table names the operations are called with
CallNames == {"t", "u", "ghost"}

(***************************************************************************)
(* Specifications                                                          *)
(***************************************************************************)
\* the whole object on a dump of several declarations
Init == input \in ObjectInputs /\ Constructed

Next ==
  \/ GetAllTableNames
  \/ \E name \in CallNames : GetTableSchema(name)
  \/ GetFullDatabaseSchema
  \/ \E name \in CallNames, limit \in {1, DefaultLimit} :
       ExtractSampleData(name, limit)
  \/ FileLost

Spec == Init /\ [][Next]_vars

\* the whole object with create_vector_chunks, on a dump of one declaration
InitChunk == input \in ChunkInputs /\ Constructed

NextChunk ==
  \/ Next
  \/ \E name \in CallNames, limit \in {0, DefaultLimit} :
       CreateVectorChunks(name, limit)

SpecChunk == InitChunk /\ [][NextChunk]_vars

\* the object from before its construction, on a file that is there or not
InitConstruct ==
  /\ input \in ChunkInputs
  /\ fileOk \in BOOLEAN
  /\ NotConstructed

NextConstruct == Construct \/ NextChunk

SpecConstruct == InitConstruct /\ [][NextConstruct]_vars

\* get_table_schema on every table of the clause menus
InitSchema == input \in SchemaInputs /\ Constructed

NextSchema == \E i \in 1..Len(input.tables) : GetTableSchema(input.tables[i].name)

SpecSchema == InitSchema /\ [][NextSchema]_vars

\* get_table_schema on the tables whose column names begin like keywords
InitKeyword == input \in KeywordInputs /\ Constructed

SpecKeyword == InitKeyword /\ [][NextSchema]_vars

\* get_table_schema on the tables with each of the trailing options
InitTail == input \in TailInputs /\ Constructed

SpecTail == InitTail /\ [][NextSchema]_vars

\* get_table_schema on the tables with a bare identifier among their clauses
InitBare == input \in BareInputs /\ Constructed

SpecBare == InitBare /\ [][NextSchema]_vars

\* extract_sample_data on every data section of the tuple menu
InitSample == input \in SampleInputs /\ Constructed

NextSample == \E limit \in SampleLimits : ExtractSampleData("t", limit)

SpecSample == InitSample /\ [][NextSample]_vars

\* extract_sample_data and _parse_values on every tuple of the value menu
InitTuple == input \in TupleInputs /\ Constructed

NextTuple ==
  \/ ExtractSampleData("t", DefaultLimit)
  \/ \E k \in 1..Len(input.data[1].rows) : ParseValuesCall(k)

SpecTuple == InitTuple /\ [][NextTuple]_vars

\* _clean_value on every quoted token
InitClean == input \in QuotedInputs /\ Constructed

NextClean == CleanValueCall

SpecClean == InitClean /\ [][NextClean]_vars

\* _clean_value on every unquoted token
InitNumber == input \in NumberInputs /\ Constructed

NextNumber == CleanTokenCall

SpecNumber == InitNumber /\ [][NextNumber]_vars

\* _parse_values on every text of quotes and backslashes
InitEscape == input \in EscapeInputs /\ Constructed

NextEscape == ParseTextCall

SpecEscape == InitEscape /\ [][NextEscape]_vars

\* create_vector_chunks on the tables with long sample values
InitLong == input \in LongInputs /\ Constructed

NextLong == \E limit \in {0, DefaultLimit} : CreateVectorChunks("t", limit)

SpecLong == InitLong /\ [][NextLong]_vars

\* _split_preserving_parentheses on every text
InitSplit == input \in SplitInputs /\ Constructed

NextSplit == SplitCall

SpecSplit == InitSplit /\ [][NextSplit]_vars

(***************************************************************************)
(* What the dump says, read off the descriptors                            *)
(***************************************************************************)
DeclaredNames == {input.tables[i].name : i \in 1..Len(input.tables)}

\* the last declaration of the name in the dump
LastDecl(name) ==
  LET idx == {i \in 1..Len(input.tables) : input.tables[i].name = name}
  IN input.tables[CHOOSE i \in idx : \A j \in idx : i >= j]

\* the text of a declaration, its name unquoted, up to and with the semicolon
StoredText(d) ==
  <<"CREATE", " ", "TABLE", " ", d.name, " ", "(">> \o BodyText(d) \o <<")">>
  \o TailText(d.tail)

Count(seq, x) == Cardinality({i \in 1..Len(seq) : seq[i] = x})

ClausesOfKind(d, kind) == SelectSeq(d.clauses, LAMBDA c : c.kind = kind)

\* column names as the parser holds them
Names(cols) == [i \in 1..Len(cols) |-> <<cols[i]>>]

ColumnNames(d) ==
  LET cs == ClausesOfKind(d, "col") IN [i \in 1..Len(cs) |-> <<cs[i].name>>]

Called(op) == last.op = op /\ ~last.raised

\* the last call returned the schema of the declared table
SchemaReturned(name) ==
  /\ Called("get_table_schema") /\ last.name = name
  /\ "error" \notin DOMAIN last.result

\* the value a tuple's value is read as
ExpectedValue(v) ==
  CASE v.tag \in {"int", "sint"} -> [tag |-> "int", v |-> <<v.v>>]
    [] v.tag = "call" -> [tag |-> "str", v |-> v.v]
    [] OTHER -> v

\* the row of a tuple: the columns of its values that are not NULL
TupleRow(vals, column_names) ==
  LET keep == {i \in 1..Len(vals) : i <= Len(column_names) /\ vals[i].tag # "null"}
  IN [c \in {column_names[i] : i \in keep} |->
        ExpectedValue(vals[CHOOSE i \in keep : column_names[i] = c])]

\* the rows of the tuples of the table's data sections, in file order
FileRows(name) ==
  IF name \notin DeclaredNames THEN <<>>
  ELSE LET ds == SelectSeq(input.data, LAMBDA d : d.table = name)
           rows == IF ds = <<>> THEN <<>> ELSE ds[1].rows
       IN [i \in 1..Len(rows) |-> TupleRow(rows[i].vals, ColumnNames(LastDecl(name)))]

RECURSIVE IsSubSeq(_, _)
IsSubSeq(a, b) ==
  IF a = <<>> THEN TRUE
  ELSE IF b = <<>> THEN FALSE
  ELSE IF Head(a) = Head(b) THEN IsSubSeq(Tail(a), Tail(b))
  ELSE IsSubSeq(a, Tail(b))

(***************************************************************************)
(* The claims                                                              *)
(***************************************************************************)
\* C1: every declared table name appears exactly once in the result of
\* get_all_table_names(), and the definition stored for a name is the text of
\* its last declaration in the dump (with the name unquoted).
C1_NamesOnceLastWins ==
  /\ Called("get_all_table_names") =>
       \A n \in DeclaredNames : Count(last.result, n) = 1
  /\ ~IsNone(table_definitions) =>
       \A n \in DeclaredNames : table_definitions.val[n] = StoredText(LastDecl(n))

\* C1 witness: the names were returned for a dump that declares one name twice,
\* with different bodies
C1_Witness ==
  /\ Called("get_all_table_names")
  /\ Len(input.tables) = 2
  /\ input.tables[1].name = input.tables[2].name
  /\ input.tables[1] # input.tables[2]

\* C2: once get_table_schema(t) has returned a schema, every later call of
\* get_table_schema(t) returns the same schema without raising, and leaves the
\* schema cache and the table definitions as they are.
C2_RepeatedSchema ==
  [][\A n \in DOMAIN first_schema :
       GetTableSchema(n) =>
         /\ ~last'.raised
         /\ last'.result = first_schema[n]
         /\ schema_cache' = schema_cache
         /\ table_definitions' = table_definitions]_vars

\* C2 witness: get_table_schema("t") was called again after it had returned a
\* schema, the file being lost by then
C2_Witness ==
  /\ "t" \in repeated
  /\ Called("get_table_schema") /\ last.name = "t"
  /\ ~fileOk

\* the outcome get_all_table_names() would have
AllTableNames(ok, defs) ==
  LET e == NamesOf(ExtractDefs(input, ok, defs, <<>>))
  IN [raised |-> e.raised, names |-> e.result]

\* C3: when the definitions are loaded or the file can be read,
\* get_table_schema(name) for a name the dump does not declare returns a result
\* with an error field, does not raise, and get_all_table_names() gives the
\* same before and after the call.
C3_MissingTable ==
  [][\A n \in CallNames \ DeclaredNames :
       (GetTableSchema(n) /\ (fileOk \/ ~IsNone(table_definitions))) =>
         /\ ~last'.raised
         /\ "error" \in DOMAIN last'.result
         /\ AllTableNames(fileOk', table_definitions')
              = AllTableNames(fileOk, table_definitions)]_vars

\* C3 witness: get_table_schema("ghost") returned on a dump that declares t
C3_Witness ==
  /\ Called("get_table_schema") /\ last.name = "ghost"
  /\ "t" \in DeclaredNames
  /\ ~IsNone(table_definitions)

\* the names of the columns whose clause carries an inline PRIMARY KEY marker
InlineMarked(d) ==
  LET cs == SelectSeq(d.clauses, LAMBDA c : c.kind = "col" /\ c.pk # "no")
  IN [i \in 1..Len(cs) |-> <<cs[i].name>>]

\* C4: for a table without a table-level PRIMARY KEY constraint,
\* primary_key.constrained_columns is the list of the columns whose clause
\* carries an inline PRIMARY KEY marker, in the order of the definition.
C4_InlinePrimaryKey ==
  \A n \in DeclaredNames :
    (Called("get_table_schema") /\ last.name = n
     /\ ClausesOfKind(LastDecl(n), "pk") = <<>>) =>
      /\ "error" \notin DOMAIN last.result
      /\ last.result.primary_key.constrained_columns = InlineMarked(LastDecl(n))

\* C4 witness: the schema was returned for a table with no PRIMARY KEY
\* constraint whose first and third columns are marked and whose second is not
C4_Witness ==
  /\ SchemaReturned("t")
  /\ ClausesOfKind(LastDecl("t"), "pk") = <<>>
  /\ InlineMarked(LastDecl("t")) = << <<"id">>, <<"bio">> >>
  /\ Len(ColumnNames(LastDecl("t"))) = 3

\* C5: for a table with table-level PRIMARY KEY constraints,
\* primary_key.constrained_columns is the column list of the first of them.
C5_TablePrimaryKey ==
  \A n \in DeclaredNames :
    (SchemaReturned(n) /\ ClausesOfKind(LastDecl(n), "pk") # <<>>) =>
      last.result.primary_key.constrained_columns
        = Names(ClausesOfKind(LastDecl(n), "pk")[1].cols)

\* the foreign key a FOREIGN KEY clause of the table describes
ExpectedForeignKey(table_name, c) ==
  [name |-> <<"fk_", table_name, "_", c.reftable>>,
   referred_table |-> <<c.reftable>>,
   referred_columns |-> Names(c.refcols),
   constrained_columns |-> Names(c.cols)]

\* C6: foreign_keys holds one ForeignKeySpec for each FOREIGN KEY clause, in
\* the order of the clauses, with the name fk_<table>_<referenced table> and
\* the column lists of the clause.
C6_ForeignKeys ==
  \A n \in DeclaredNames :
    SchemaReturned(n) =>
      LET fks == ClausesOfKind(LastDecl(n), "fk")
      IN last.result.foreign_keys
           = [i \in 1..Len(fks) |-> ExpectedForeignKey(n, fks[i])]

\* name, type, nullable and primary_key of the columns of a schema
ColumnFacts(schema) ==
  [i \in 1..Len(schema.columns) |->
     <<schema.columns[i].name, schema.columns[i].type,
       schema.columns[i].nullable, schema.columns[i].primary_key>>]

\* C7: every column clause has a ColumnSpec, nullable is false exactly when
\* the clause has NOT NULL in any case, primary_key is true exactly when the
\* clause itself has a PRIMARY KEY marker (a table-level constraint naming the
\* column does not set it); and the users table gives id (INT, nullable,
\* primary key), name (VARCHAR(50), not nullable) and the primary key [id].
C7_ColumnFlags ==
  \A n \in DeclaredNames :
    SchemaReturned(n) =>
      /\ \A c \in Range(ClausesOfKind(LastDecl(n), "col")) :
           /\ \E i \in 1..Len(last.result.columns) :
                last.result.columns[i].name = <<c.name>>
           /\ \A i \in 1..Len(last.result.columns) :
                last.result.columns[i].name = <<c.name>> =>
                  /\ last.result.columns[i].nullable = (c.notnull = "no")
                  /\ last.result.columns[i].primary_key = (c.pk # "no")
      /\ LastDecl(n) = UsersTable =>
           /\ ColumnFacts(last.result)
                = << <<<<"id">>, <<"INT">>, TRUE, TRUE>>,
                     <<<<"name">>, <<"VARCHAR", "(", "50", ")">>, FALSE, FALSE>> >>
           /\ last.result.primary_key.constrained_columns = << <<"id">> >>

\* C7 witness: the schema of the users table was returned
C7_Witness ==
  /\ SchemaReturned("users")
  /\ LastDecl("users") = UsersTable

\* C8: a DECIMAL(10,2) column clause is one part of the clause splitter's
\* result, and its ColumnSpec has the whole of DECIMAL(10,2) as its type,
\* wherever the clause stands among the clauses.
C8_DecimalType ==
  \A n \in DeclaredNames :
    SchemaReturned(n) =>
      LET d == LastDecl(n)
          parts == split_preserving_parentheses(BodyText(d))
      IN \A k \in 1..Len(d.clauses) :
           (d.clauses[k].kind = "col" /\ d.clauses[k].type = "DECIMAL(10,2)") =>
             /\ Len(parts) = Len(d.clauses)
             /\ parts[k] = ClauseText(d.style, d.clauses[k])
             /\ \E i \in 1..Len(last.result.columns) :
                  /\ last.result.columns[i].name = <<d.clauses[k].name>>
                  /\ last.result.columns[i].type = TypeText("DECIMAL(10,2)")

\* C8 witness: the schema was returned for a table whose first, middle and
\* last clauses are DECIMAL(10,2) columns
C8_Witness ==
  /\ SchemaReturned("t")
  /\ Len(LastDecl("t").clauses) = 3
  /\ \A k \in 1..3 : /\ LastDecl("t").clauses[k].kind = "col"
                     /\ LastDecl("t").clauses[k].type = "DECIMAL(10,2)"

\* the dump's data for t is the block LOCK TABLES `t` WRITE;
\* INSERT INTO `t` VALUES (1,'Alice',NULL); UNLOCK TABLES; and t has the
\* columns id, name, bio
AliceDump ==
  /\ Len(input.data) = 1
  /\ input.data[1].table = "t"
  /\ input.data[1].rows
       = <<[vals |-> <<IntVal("1"), StrVal(<<"Alice">>), NullValue>>,
            newStmt |-> TRUE]>>
  /\ ColumnNames(LastDecl("t")) = << <<"id">>, <<"name">>, <<"bio">> >>

AliceCall ==
  Called("extract_sample_data") /\ last.name = "t" /\ last.limit = DefaultLimit

\* the one row {id: 1, name: "Alice"}
AliceRows ==
  << (<<"id">> :> [tag |-> "int", v |-> <<"1">>])
     @@ (<<"name">> :> [tag |-> "str", v |-> <<"Alice">>]) >>

\* C9 as stated: with the block in the dump, extract_sample_data("t", 5)
\* returns the one row {id: 1, name: "Alice"}.
C9_AliceBlock == (AliceDump /\ AliceCall) => last.result = AliceRows

\* C9 amended: with the block in the dump after the comment marker
\* -- Dumping data for table `t` and a line --, extract_sample_data("t", 5)
\* returns the one row {id: 1, name: "Alice"}, bio being left out.
C9_AliceBlockAfterMarker ==
  (AliceDump /\ input.data[1].marker /\ AliceCall) => last.result = AliceRows

\* C9 witness: extract_sample_data("t", 5) returned on the dump with the
\* marker and the block
C9_Witness == AliceDump /\ input.data[1].marker /\ AliceCall

\* C10: extract_sample_data(table, limit) returns at most limit rows, and its
\* rows are rows of the table's tuples in the order of the tuples in the file.
C10_LimitAndOrder ==
  Called("extract_sample_data") =>
    /\ Len(last.result) <= last.limit
    /\ IsSubSeq(last.result, FileRows(last.name))

\* C10 witness: two rows were returned under limit 2 from a data section of
\* three tuples in two statements
C10_Witness ==
  /\ Called("extract_sample_data") /\ last.limit = 2
  /\ Len(input.data[1].rows) = 3
  /\ \E k \in 2..3 : input.data[1].rows[k].newStmt
  /\ Len(last.result) = 2

\* the data section the parser finds for the table, its INSERT statements and
\* the texts between the parentheses of their tuples
SectionOf(sql_content, dump_match) ==
  IF dump_match.ok THEN Group0(sql_content, dump_match) ELSE <<>>

DumpSection(table_name, sql_content) ==
  SectionOf(sql_content, ReSearch(DumpPattern(table_name), sql_content))

StatementsIn(table_name, dump_section) ==
  Groups0(dump_section, ReFindAll(InsertPattern(table_name), dump_section))

ValueSetsOf(statement, values_match) ==
  IF values_match.ok THEN ValueSets(Group(statement, values_match, 1)) ELSE <<>>

StatementValueSets(statement) ==
  ValueSetsOf(statement, ReSearch(ValuesPattern, statement))

AllValueSets(statements) ==
  Flatten([i \in 1..Len(statements) |-> StatementValueSets(statements[i])])

FileValueSets(table_name) ==
  AllValueSets(StatementsIn(table_name, DumpSection(table_name, DumpText(input))))

\* the tuple has the values listed, kind by kind
TupleIs(vals, expected) ==
  /\ Len(vals) = Len(expected)
  /\ \A i \in 1..Len(vals) :
       /\ vals[i].tag = expected[i].tag
       /\ vals[i].tag # "null" => vals[i].v = expected[i].v

\* the row holds, under the i-th column name, the cleaned i-th token when that
\* is not null, and nothing else
SparseRowOf(row, tokens, column_names) ==
  /\ DOMAIN row \subseteq Range(column_names)
  /\ \A c \in DOMAIN row : row[c] # NullValue
  /\ \A i \in 1..Len(column_names) :
       IF i <= Len(tokens) /\ clean_value(tokens[i]) # NullValue
       THEN /\ column_names[i] \in DOMAIN row
            /\ row[column_names[i]] = clean_value(tokens[i])
       ELSE column_names[i] \notin DOMAIN row

RowsAreSparse(rows, value_sets, column_names) ==
  \A k \in 1..Len(rows) :
    \E j \in 1..Len(value_sets) :
      SparseRowOf(rows[k], parse_values(value_sets[j]), column_names)

\* C11: every row extract_sample_data returns is a sparse mapping of one tuple:
\* its keys are column names of the schema, the value under the i-th column
\* name is the cleaned i-th token of the tuple, a token that cleans to null
\* leaves its column out, and the tokens beyond the columns are dropped.
C11_SparseRows ==
  Called("extract_sample_data") =>
    RowsAreSparse(last.result, FileValueSets(last.name),
                  ColumnNames(LastDecl(last.name)))

\* C11 witness: the tuple (1,NULL,'a,b') of a table with the columns id, name
\* gave the row {id: 1}
C11_Witness ==
  /\ Called("extract_sample_data")
  /\ TupleIs(input.data[1].rows[1].vals,
             <<IntVal("1"), NullValue, StrVal(<<"a", ",", "b">>)>>)
  /\ ColumnNames(LastDecl("t")) = << <<"id">>, <<"name">> >>
  /\ last.result = << (<<"id">> :> [tag |-> "int", v |-> <<"1">>]) >>

\* the tokens of a tuple: the texts of its values, stripped
ValueTokens(vals) == [i \in 1..Len(vals) |-> Strip(ValueText(vals[i]), WS)]

\* C12: _parse_values returns one token per value of the tuple: a comma inside
\* a quoted string or inside parentheses does not split, so 'a,b', 1 gives the
\* two tokens 'a,b' and 1.
C12_ParseValues ==
  Called("_parse_values") =>
    last.result = ValueTokens(input.data[1].rows[last.limit].vals)

\* C12 witness: _parse_values returned two tokens for 'a,b', 1
C12_Witness ==
  /\ Called("_parse_values")
  /\ TupleIs(input.data[1].rows[last.limit].vals,
             <<StrVal(<<"a", ",", "b">>), SpacedInt("1")>>)
  /\ last.result = << <<"'", "a", ",", "b", "'">>, <<"1">> >>

\* C13: for a quoted token with escaped quotes between its quotes,
\* _clean_value returns the string between the quotes with every escaped quote
\* replaced by the quote itself.
C13_EscapedQuotes ==
  (Called("_clean_value") /\ Range(input.content) \cap {"'", "\""} # {}) =>
    last.result = [tag |-> "str", v |-> input.content]

\* C13 witness: _clean_value returned it's for 'it\'s'
C13_Witness ==
  /\ Called("_clean_value")
  /\ QuotedText(input) = <<"'", "it", "\\", "'", "s", "'">>
  /\ last.result = [tag |-> "str", v |-> <<"it", "'", "s">>]

\* a step of a method of the object: the file and the object stay as they are
MethodStep == fileOk' = fileOk /\ constructed' = constructed /\ last'.op # "init"

\* C14: over any sequence of public operations on a file that can be read,
\* _read_sql_file is invoked at most once: no operation invokes it twice, and
\* none invokes it after it has been invoked.
C14_ReadAtMostOnce ==
  [][(MethodStep /\ fileOk) =>
       /\ last'.reads <= 1
       /\ read_done => last'.reads = 0]_vars

\* C15: once the definitions are loaded (the first read has succeeded), no
\* public operation reads the file or raises, whether or not the file can
\* still be read.
C15_NoReadAfterFirst ==
  [][(MethodStep /\ ~IsNone(table_definitions)) =>
       /\ ~last'.raised
       /\ last'.reads = 0]_vars

\* OSError and its names: IOError is OSError, FileNotFoundError a subclass
IOErrors == {"OSError", "IOError", "FileNotFoundError"}

\* C16: __init__ on a path that does not exist raises an IOError-class
\* exception at once, without reading, and leaves no parser object: no field
\* is populated and no method ever runs; on an existing path it succeeds.
C16_EagerConstructor ==
  /\ [](~constructed => last.op \in {"none", "init"})
  /\ [][Construct =>
          IF fileOk THEN constructed' /\ ~last'.raised
          ELSE /\ last'.raised /\ last'.result \in IOErrors
               /\ ~constructed'
               /\ IsNone(table_definitions') /\ schema_cache' = <<>>
               /\ ~read_done']_vars

\* C16 witness: __init__ raised on a missing file and no object was produced
C16_Witness ==
  /\ last.op = "init" /\ last.raised
  /\ ~fileOk /\ ~constructed

\* what extract_sample_data(name, 1) finds while the file can be read
SampleFound(name) ==
  ExtractSample(input, TRUE, table_definitions, schema_cache, name, 1).result

\* the sample values written in the content
SampleValueCount(content) == Count(content, " = ")

\* the chunk has the count of the rows found, capped at one, and holds the
\* values of the first of them and no other sample value
ChunkOfRows(chunk, rows) ==
  /\ chunk.metadata.sample_count = (IF Len(rows) > 0 THEN 1 ELSE 0)
  /\ IF Len(rows) = 0 THEN SampleValueCount(chunk.content) = 0
     ELSE /\ SampleValueCount(chunk.content) = Cardinality(DOMAIN rows[1])
          /\ \A c \in DOMAIN rows[1] :
               Contains(chunk.content,
                        <<"  - ">> \o c \o <<": ">>)
               /\ Contains(chunk.content, <<" = ">> \o rows[1][c].v \o <<"\n">>)

\* C17: create_vector_chunks returns at most one chunk for any table name and
\* any limit; the chunk holds the values of at most one sample row, the first
\* that extract_sample_data(name, 1) finds, and its sample_count is 1 when
\* there is such a row and 0 when there is none.
C17_OneChunkOneRow ==
  Called("create_vector_chunks") =>
    /\ Len(last.result) \in {0, 1}
    /\ \A i \in 1..Len(last.result) :
         ChunkOfRows(last.result[i], SampleFound(last.name))

\* C17 witness: create_vector_chunks("t", 5) returned one chunk with
\* sample_count 1 that shows Alice of the first tuple and not Bob of the second
C17_Witness ==
  /\ Called("create_vector_chunks") /\ last.name = "t"
  /\ last.limit = DefaultLimit
  /\ Len(last.result) = 1
  /\ last.result[1].metadata.sample_count = 1
  /\ Contains(last.result[1].content, <<" = ", "Alice", "\n">>)
  /\ ~Contains(last.result[1].content, <<"Bob">>)

\* the rows of the table's tuples that hold a value
NonEmptyFileRows(name) == SelectSeq(FileRows(name), LAMBDA r : DOMAIN r # {})

\* C18: a parenthesis inside a quoted string or a nested pair of parentheses
\* inside a value does not end the tuple: extract_sample_data returns, for a
\* statement of one tuple, the row of the tuple's values.
C18_ParenthesesInValues ==
  (Called("extract_sample_data") /\ last.limit = DefaultLimit) =>
    last.result = NonEmptyFileRows(last.name)

\* C19: when extract_sample_data returns fewer than limit rows for a table
\* whose data section is found, every tuple of every INSERT statement of the
\* section that has a non-null value is in the result.
C19_UntilExhausted ==
  (/\ Called("extract_sample_data") /\ input.data[1].marker
   /\ Len(last.result) < last.limit) =>
    last.result = NonEmptyFileRows(last.name)

\* nesting depth after the first n characters: any opening bracket adds one,
\* any closing bracket takes one
RECURSIVE Depth(_, _)
Depth(text, n) ==
  IF n = 0 THEN 0
  ELSE Depth(text, n - 1)
       + (IF text[n] \in {"(", "[", "{"} THEN 1
          ELSE IF text[n] \in {")", "]", "}"} THEN -1 ELSE 0)

Separators(text) == {i \in 1..Len(text) : text[i] = "," /\ Depth(text, i - 1) = 0}

\* the k-th separator, 0 before the first and the end of the text after the last
Separator(text, k) ==
  IF k = 0 THEN 0
  ELSE IF k > Cardinality(Separators(text)) THEN Len(text) + 1
  ELSE CHOOSE i \in Separators(text) :
         Cardinality({j \in Separators(text) : j < i}) = k - 1

\* the text between the (k-1)-th and the k-th separator, stripped
Clause(text, k) ==
  Strip(SubSeq(text, Separator(text, k - 1) + 1, Separator(text, k) - 1), WS)

\* the clauses of the text: those before each separator, and the one after the
\* last separator unless it is blank
Clauses(text) ==
  LET n == Cardinality(Separators(text))
      m == IF Clause(text, n + 1) # <<>> THEN n + 1 ELSE n
  IN [k \in 1..m |-> Clause(text, k)]

\* C20: _split_preserving_parentheses cuts the text at the commas of depth
\* zero and nowhere else, any of ( [ { opening a level and any of ) ] } closing
\* one; FOREIGN KEY (a,b) REFERENCES t(a,b) is one clause.
C20_SplitAtDepthZero ==
  Called("_split_preserving_parentheses") =>
    /\ last.result = Clauses(input.text)
    /\ input.text = FkClause => last.result = <<FkClause>>

\* C20 witness: the splitter returned id INT and the whole foreign key clause
C20_Witness ==
  /\ Called("_split_preserving_parentheses")
  /\ input.text = <<"id", " ", "INT", ",", " ">> \o FkClause
  /\ last.result = << <<"id", " ", "INT">>, FkClause >>

\* the names of the columns of a schema, in order
SchemaColumnNames(schema) ==
  [i \in 1..Len(schema.columns) |-> schema.columns[i].name]

\* C21: the columns of get_table_schema(t) are, in the order of the
\* definition, the clauses whose first token is not a constraint keyword:
\* a column whose name only begins with the letters of a keyword (keyword,
\* checksum, index_no) has its ColumnSpec, a PRIMARY KEY clause has none.
C21_ColumnsByFirstToken ==
  \A n \in DeclaredNames :
    SchemaReturned(n) =>
      SchemaColumnNames(last.result) = ColumnNames(LastDecl(n))

\* C22: for every declared table, whatever stands between the closing
\* parenthesis and the semicolon (nothing, ENGINE=..., DEFAULT CHARSET=...,
\* COMMENT=...), get_table_schema returns a schema without an error field
\* whose columns are those between the outermost parentheses.
C22_AnyTrailingOptions ==
  \A n \in DeclaredNames :
    (Called("get_table_schema") /\ last.name = n) =>
      /\ "error" \notin DOMAIN last.result
      /\ SchemaColumnNames(last.result) = ColumnNames(LastDecl(n))

\* the declaration without its bare identifiers
WithoutBare(d) ==
  [d EXCEPT !.clauses = SelectSeq(@, LAMBDA c : c.kind # "bare")]

HasBare(d) == ClausesOfKind(d, "bare") # <<>>

\* C23: a clause that is a bare identifier is dropped without error: the
\* schema has no error field and no column for it, and is the schema the
\* table has without the clause.
C23_BareClauseDropped ==
  \A n \in DeclaredNames :
    (Called("get_table_schema") /\ last.name = n /\ HasBare(LastDecl(n))) =>
      /\ "error" \notin DOMAIN last.result
      /\ <<"x">> \notin Range(SchemaColumnNames(last.result))
      /\ SchemaColumnNames(last.result) = ColumnNames(LastDecl(n))
      /\ last.result = ParseSchema(n, StoredText(WithoutBare(LastDecl(n))))

\* C23 witness: the schema was returned for a table whose bare identifier
\* stands between the column id and a FOREIGN KEY clause
C23_Witness ==
  /\ SchemaReturned("t")
  /\ Len(LastDecl("t").clauses) = 3
  /\ LastDecl("t").clauses[1].kind = "col"
  /\ LastDecl("t").clauses[2].kind = "bare"
  /\ LastDecl("t").clauses[3].kind = "fk"
  /\ Len(last.result.columns) = 1
  /\ Len(last.result.foreign_keys) = 1

\* the value the claim gives an unquoted token: null for NULL and for blanks,
\* an integer when int() takes it, else a float when float() takes it, else
\* the cleaned string
CoercedValue(value) ==
  IF UpperSeq(value) = <<"NULL">> \/ Strip(value, WS) = <<>> THEN NullValue
  ELSE IF IntParses(value) THEN [tag |-> "int", v |-> Strip(value, WS)]
  ELSE IF FloatParses(value) THEN [tag |-> "float", v |-> Strip(value, WS)]
  ELSE [tag |-> "str", v |-> CleanText(value)]

\* C24: _clean_value turns an unquoted token into an integer when it parses
\* as one, else into a float when it parses as one, with or without a point
\* (1.5, 1e5), and keeps it as a cleaned string only when neither parse
\* succeeds; NULL in any case and a blank token give null; the result is null,
\* an integer, a float or a string.
C24_NumberCoercion ==
  (Called("_clean_value") /\ "token" \in DOMAIN input) =>
    /\ last.result.tag \in {"null", "int", "float", "str"}
    /\ last.result = CoercedValue(input.token)

\* whether the i-th character follows a backslash that is not itself escaped
RECURSIVE IsEscaped(_, _)
IsEscaped(text, i) == i > 1 /\ text[i - 1] = "\\" /\ ~IsEscaped(text, i - 1)

\* the open quote after a character c that is not escaped, q being open before
QuoteAfter(q, c) ==
  IF c \notin {"'", "\""} THEN q
  ELSE IF q = "" THEN c
  ELSE IF q = c THEN "" ELSE q

\* the quote character open after the first n characters, "" when none is
RECURSIVE OpenQuote(_, _)
OpenQuote(text, n) ==
  IF n = 0 THEN ""
  ELSE IF IsEscaped(text, n) THEN OpenQuote(text, n - 1)
  ELSE QuoteAfter(OpenQuote(text, n - 1), text[n])

\* the parentheses open after the first n characters: those outside strings
\* and not escaped
RECURSIVE OpenParens(_, _)
OpenParens(text, n) ==
  IF n = 0 THEN 0
  ELSE OpenParens(text, n - 1)
       + (IF IsEscaped(text, n) \/ OpenQuote(text, n - 1) # "" THEN 0
          ELSE IF text[n] = "(" THEN 1
          ELSE IF text[n] = ")" THEN -1 ELSE 0)

\* the commas that end a token
TokenEnds(text) ==
  {i \in 1..Len(text) :
     /\ text[i] = "," /\ ~IsEscaped(text, i)
     /\ OpenQuote(text, i - 1) = "" /\ OpenParens(text, i - 1) = 0}

\* the k-th of the positions, 0 before the first, the end of the text after
\* the last
NthEnd(text, ends, k) ==
  IF k = 0 THEN 0
  ELSE IF k > Cardinality(ends) THEN Len(text) + 1
  ELSE CHOOSE i \in ends : Cardinality({j \in ends : j < i}) = k - 1

\* the text between the (k-1)-th and the k-th of the positions
PieceAt(text, ends, k) ==
  SubSeq(text, NthEnd(text, ends, k - 1) + 1, NthEnd(text, ends, k) - 1)

\* the stripped pieces before each of the positions, and the piece after the
\* last unless it is empty
PiecesAt(text, ends) ==
  [k \in 1..(Cardinality(ends)
             + (IF PieceAt(text, ends, Cardinality(ends) + 1) # <<>> THEN 1 ELSE 0))
     |-> Strip(PieceAt(text, ends, k), WS)]

\* C25: in _parse_values the character after a backslash is appended as it
\* is and never opens or closes a string, a parenthesis or a token, and a
\* quote character opens or closes a string only when no string is open or it
\* is the quote that opened the string; 'a\',b', 2 gives two tokens.
C25_EscapesAndQuotes ==
  (Called("_parse_values") /\ "text" \in DOMAIN input) =>
    /\ last.result = PiecesAt(input.text, TokenEnds(input.text))
    /\ input.text = EscapedQuoteText =>
         last.result = << <<"'", "a", "\\", "'", ",", "b", "'">>, <<"2">> >>
    /\ input.text = OtherQuoteText =>
         last.result = << <<"'", "a", "\"", "b", ",", "c", "'">>, <<"2">> >>

\* C25 witness: _parse_values returned the two tokens of 'a\',b', 2
C25_Witness ==
  /\ Called("_parse_values")
  /\ input.text = EscapedQuoteText
  /\ Len(last.result) = 2

\* the dump has a data region for the table: the comment marker naming it,
\* LOCK TABLES, an INSERT statement and UNLOCK TABLES
HasRegion(name) ==
  \E i \in 1..Len(input.data) :
    /\ input.data[i].table = name /\ input.data[i].marker
    /\ input.data[i].rows # <<>>

\* the schema get_table_schema(name) gives while the file can be read
SchemaOf(name) ==
  GetSchema(input, TRUE, table_definitions, schema_cache, name).result

\* the table is absent, or its schema has no columns, or it has no data region
NoData(name) ==
  \/ name \notin DeclaredNames
  \/ ~HasRegion(name)
  \/ NoColumns(SchemaOf(name))

PublicOps ==
  {"get_all_table_names", "get_table_schema", "get_full_database_schema",
   "extract_sample_data", "create_vector_chunks"}

\* C27: the table definitions are built once, by the first operation that
\* completes, from the text of the dump, and are never changed afterwards:
\* every later step leaves the mapping (keys, order, texts) as it is.
C27_DefinitionsBuiltOnce ==
  /\ []((last.op \in PublicOps /\ ~last.raised) => ~IsNone(table_definitions))
  /\ [][IF IsNone(table_definitions)
        THEN \/ IsNone(table_definitions')
             \/ table_definitions' = BuildTableDefinitions(DumpText(input))
        ELSE table_definitions' = table_definitions]_vars

\* C27 witness: get_full_database_schema() returned after the definitions were
\* built and the file was lost
C27_Witness ==
  /\ Called("get_full_database_schema")
  /\ ~fileOk
  /\ ~IsNone(table_definitions)
  /\ Len(table_definitions.keys) = 2

\* C29: every key of the schema cache is a key of the table definitions and no
\* cached schema carries an error field (the results "Table not found" and
\* "Failed to extract columns" are never stored); an entry of the cache is
\* never replaced or removed.
C29_CacheOnlySchemas ==
  /\ [](\A n \in DOMAIN schema_cache :
          /\ "error" \notin DOMAIN schema_cache[n]
          /\ ~IsNone(table_definitions) /\ HasKey(table_definitions, n))
  /\ [][\A n \in DOMAIN schema_cache :
          n \in DOMAIN schema_cache' /\ schema_cache'[n] = schema_cache[n]]_vars

\* C29 witness: get_table_schema("u") returned "Failed to extract columns"
\* after the schema of t was cached, and u is not in the cache
C29_Witness ==
  /\ Called("get_table_schema") /\ last.name = "u"
  /\ "error" \in DOMAIN last.result
  /\ last.result.error = "Failed to extract columns"
  /\ DOMAIN schema_cache = {"t"}

\* C30: get_full_database_schema() returns a mapping whose keys are the names
\* get_all_table_names() returns, in the same order, and whose value for each
\* name is what get_table_schema(name) returns; it does not raise when the
\* definitions are loaded or the file can be read, a table whose definition
\* cannot be parsed having an error-bearing entry.
C30_FullSchemaIsPerTable ==
  /\ [](Called("get_full_database_schema") =>
          /\ last.result.keys = AllTableNames(fileOk, table_definitions).names
          /\ \A n \in Range(last.result.keys) :
               last.result.val[n]
                 = GetSchema(input, fileOk, table_definitions, schema_cache, n).result)
  /\ [][(/\ MethodStep /\ last'.op = "get_full_database_schema"
          /\ (fileOk \/ ~IsNone(table_definitions))) => ~last'.raised]_vars

\* C30 witness: get_full_database_schema() returned the schema of t and an
\* error-bearing entry for u
C30_Witness ==
  /\ Called("get_full_database_schema")
  /\ last.result.keys = <<"t", "u">>
  /\ "error" \notin DOMAIN last.result.val["t"]
  /\ "error" \in DOMAIN last.result.val["u"]

\* the text a sample value is shown as: a string of more than 50 characters
\* as its first 47 and "...", any other value in full
ShownValue(v) ==
  IF \E n \in 51..53 : v = StrVal(LongText(n))
  THEN LongText(47) \o <<"...">>
  ELSE v.v

\* the line of the i-th column of the table for the tuple: the value after
\* " = ", nothing for NULL
ShownLine(d, vals, i) ==
  <<"  - ", d.clauses[i].name, ": ">> \o TypeText(d.clauses[i].type)
  \o (IF vals[i].tag = "null" THEN <<>> ELSE <<" = ">> \o ShownValue(vals[i]))
  \o <<"\n">>

\* C28: in the content of the chunk a string sample value of more than 50
\* characters is shown as its first 47 characters and "..." (50 characters),
\* a string of 50 characters or fewer and every number is shown in full, and
\* a column without a value in the sample row has no " = value" after it.
C28_LongValuesCut ==
  (Called("create_vector_chunks") /\ input \in LongInputs) =>
    /\ Len(last.result) = 1
    /\ last.result[1].content
         = <<"TABLE: ", "t", "\n", "\n", "SCHEMA:", "\n",
             "COLUMNS WITH SAMPLE DATA:", "\n">>
           \o ShownLine(LongTable, input.data[1].rows[1].vals, 1)
           \o ShownLine(LongTable, input.data[1].rows[1].vals, 2)
    /\ \A i \in 1..2 :
         LET v == input.data[1].rows[1].vals[i]
         IN /\ v = StrVal(LongText(50)) => ShownValue(v) = LongText(50)
            /\ v = StrVal(LongText(51)) => TextLen(ShownValue(v)) = 50

\* C28 witness: the chunk was returned for the tuple of a string of 51
\* characters and the numeral of 53 digits
C28_Witness ==
  /\ Called("create_vector_chunks")
  /\ input \in LongInputs
  /\ TupleIs(input.data[1].rows[1].vals,
             <<StrVal(LongText(51)), CallVal(<<LongNumeral>>)>>)
  /\ Contains(last.result[1].content, LongText(47) \o <<"...">>)
  /\ Contains(last.result[1].content, <<" = ", LongNumeral, "\n">>)

====
